---- MODULE Spec2Model ----
(***************************************************************************)
(* A model of the LiquidGlass instance of src/lib/liquid-glass.umd.js:     *)
(* its options, its interaction state, its eight springs, the animation    *)
(* frame it has requested from the browser, and the filter resources       *)
(* (refraction table, displacement and specular buffers, published         *)
(* attributes) that _updateFilter rebuilds.                                *)
(*                                                                         *)
(* Numbers.  JavaScript numbers are doubles; TLC has 32-bit integers.      *)
(* Every quantity is therefore a fixed-point integer:                      *)
(*   - spring value/target/velocity        : units of 1/S    (S = 10^5)    *)
(*   - pointer velocity (px/s)             : units of 1/VS   (VS = 20)     *)
(*   - dimensionless solver quantities     : units of 1/H    (H = 10^8)    *)
(*   - slopes, pixels, table entries       : units of 1/B    (B = 10^4)    *)
(*   - fractional options (refractiveIndex,                                *)
(*     refractionScale, specularOpacity,                                   *)
(*     blur)                               : units of 1/C    (C = 100)     *)
(* Products and quotients are computed in split form so that no            *)
(* intermediate leaves the 32-bit range.                                   *)
(***************************************************************************)
EXTENDS Integers, Sequences, FiniteSets, TLC

VARIABLES
    options,            \* this.options
    dimensions,         \* this.dimensions, set once by _setupDOM
    rect,               \* the element's layout box (getBoundingClientRect)
    state,              \* this.state
    springs,            \* this.springs
    animationFrameId,   \* this.animationFrameId
    frames,             \* the browser's pending animation-frame callbacks
    element,            \* this.element: "div", or "null" after destroy
    listening,          \* whether the drag listeners are registered
    filter,             \* the filter primitives' attributes and images
    thrown,             \* the exception the last handler raised, or "none"
    calls,              \* the internal functions the last handler ran
    events,             \* handlers run so far (ticks excluded)
    gap,                \* ticks since the last handler, saturating
    held,               \* the object the calling script holds: a Spring it
                        \* created or the object getOptions() returned
    call                \* the script's last call of an exported function:
                        \* its name, arguments and returned value

vars == <<options, dimensions, rect, state, springs, animationFrameId, frames,
          element, listening, filter, thrown, calls, events, gap, held, call>>

----------------------------------------------------------------------------
(* Fixed-point scales                                                       *)

S == 10^5
VS == 2 * 10
H == 10^8
B == 10^4
C == 10^2

(* JavaScript null / NaN.  NaN is a number no computation of the model     *)
(* produces otherwise.                                                      *)
NULL == 0
NaN == 0 - 2147483647

----------------------------------------------------------------------------
(* Arithmetic helpers                                                       *)

Abs(a) == IF a < 0 THEN 0 - a ELSE a

Sgn(a) == IF a < 0 THEN 0 - 1 ELSE 1

Min(a, b) == IF a < b THEN a ELSE b

Max(a, b) == IF a > b THEN a ELSE b

(* (a * n) / d rounded to the nearest integer, for n, d > 0, computed     *)
(* without forming a * n                                                   *)
MulDiv(a, n, d) ==
    LET q == Abs(a) \div d
        r == Abs(a) % d
    IN  Sgn(a) * (q * n + (2 * r * n + d) \div (2 * d))

(* (a * b) / H for a, b in units of 1/H (or one of them in another unit,   *)
(* which is then the unit of the result)                                    *)
MulH(a, b) ==
    LET aa == Abs(a)
        bb == Abs(b)
        ah == aa \div B
        al == aa % B
        bh == bb \div B
        bl == bb % B
    IN  Sgn(a) * Sgn(b) * (ah * bh + (ah * bl + al * bh) \div B + (al * bl) \div H)

RECURSIVE DivDigits(_, _, _, _)
DivDigits(q, r, b, k) ==
    IF k = 0 THEN q
    ELSE DivDigits(q * 10 + (r * 10) \div b, (r * 10) % b, b, k - 1)

(* (a * 10^k) / b, truncated toward zero, digit by digit; b # 0 *)
DivD(a, b, k) == Sgn(a) * Sgn(b) * DivDigits(Abs(a) \div Abs(b), Abs(a) % Abs(b), Abs(b), k)

(* r * r as the two-word number <<hi, lo>> = hi * H + lo, for r >= 0 *)
Sq2(r) ==
    LET rh == r \div B
        rl == r % B
        a  == 2 * rh * rl
        t  == (a % B) * B + rl * rl
    IN  <<rh * rh + a \div B + t \div H, t % H>>

Le2(p, q) == p[1] < q[1] \/ (p[1] = q[1] /\ p[2] <= q[2])

RECURSIVE SqrtBits(_, _, _)
SqrtBits(r, bit, w) ==
    IF bit = 0 THEN r
    ELSE IF Le2(Sq2(r + bit), w) THEN SqrtBits(r + bit, bit \div 2, w)
         ELSE SqrtBits(r, bit \div 2, w)

(* floor(sqrt(hi * H + lo)) *)
ISqrt2(w) == SqrtBits(0, 134217728, w)

(* Math.sqrt of a number in units of 1/H; NaN for a negative argument *)
SqrtH(w) == IF w = NaN \/ w < 0 THEN NaN ELSE ISqrt2(<<w, 0>>)

(* Math.pow(u, 4) *)
Pow4(u) == MulH(MulH(u, u), MulH(u, u))

(* Math.pow(w, 1 / 4); NaN for a negative base *)
Root4(w) == SqrtH(SqrtH(w))

----------------------------------------------------------------------------
(* SurfaceEquations (lines 34-44)                                           *)

convex_circle(x) == SqrtH(H - MulH(H - x, H - x))

convex_squircle(x) == Root4(H - Pow4(H - x))

concave(x) == H - SqrtH(H - MulH(x, x))

(* the blend weights exchanged: concave first, convex last *)
lipConcaveFirst(x) ==
    LET convex == Root4(H - Pow4(H - Min(x * 2, H)))
        concav == H - SqrtH(H - MulH(H - x, H - x)) + H \div 10
        x3 == MulH(MulH(x, x), x)
        x4 == MulH(x3, x)
        x5 == MulH(x4, x)
        smootherstep == 6 * x5 - 15 * x4 + 10 * x3
    IN  MulH(concav, H - smootherstep) + MulH(convex, smootherstep)

lip(x) ==
    LET convex == Root4(H - Pow4(H - Min(x * 2, H)))
        concav == H - SqrtH(H - MulH(H - x, H - x)) + H \div 10
        x3 == MulH(MulH(x, x), x)
        x4 == MulH(x3, x)
        x5 == MulH(x4, x)
        smootherstep == 6 * x5 - 15 * x4 + 10 * x3
    IN  MulH(convex, H - smootherstep) + MulH(concav, smootherstep)

(* the own properties of the SurfaceEquations object *)
SurfaceNames == {"convex_circle", "convex_squircle", "concave", "lip"}

(* properties every object inherits from Object.prototype *)
InheritedNames == {"constructor", "toString"}

(* SurfaceEquations[name]: an own function, an inherited one, or undefined *)
SurfaceEquations(name) ==
    IF name \in SurfaceNames \cup InheritedNames THEN name ELSE "undefined"

(* surfaceFn(x).  Object(x) wraps x, which arithmetic unwraps again;       *)
(* Object.prototype.toString returns a string, which arithmetic turns      *)
(* into NaN.                                                               *)
CallSurface(surfaceFn, x) ==
    CASE surfaceFn = "convex_circle"   -> convex_circle(x)
      [] surfaceFn = "convex_squircle" -> convex_squircle(x)
      [] surfaceFn = "concave"         -> concave(x)
      [] surfaceFn = "lip"             -> lip(x)
      [] surfaceFn = "constructor"     -> x
      [] surfaceFn = "toString"        -> NaN

----------------------------------------------------------------------------
(* _calculateDisplacementMap1D (lines 297-332)                              *)

DefaultSamples == 128

(* refract(normalX, normalY): <<ok, x, y>>, ok = FALSE for the null result *)
RefractK(eta, normalX, normalY, k, e) ==
    IF k < 0 THEN <<FALSE, 0, 0>>
    ELSE <<TRUE, 0 - MulH(e, normalX), eta - MulH(e, normalY)>>

refract(eta, normalX, normalY) ==
    RefractK(eta, normalX, normalY,
             H - MulH(MulH(eta, eta), H - MulH(normalY, normalY)),
             MulH(eta, normalY)
                 + SqrtH(H - MulH(MulH(eta, eta), H - MulH(normalY, normalY))))

(* The sample loop's body, one operator per group of statements.           *)

(* const dx = x < 1 ? 0.0001 : -0.0001 *)
Dx(x) == IF x < H THEN H \div B ELSE 0 - (H \div B)

(* Math.sqrt(derivative * derivative + 1), in units of 1/B *)
Magnitude(derivative) ==
    ISqrt2(<<Sq2(Abs(derivative))[1] + 1, Sq2(Abs(derivative))[2]>>)

(* refract(normal[0], normal[1]) for the normal of slope `derivative` *)
Refracted(eta, derivative, magnitude) ==
    refract(eta, 0 - DivD(derivative, magnitude, 8), 0 - DivD(B, magnitude, 8))

(* the value pushed: 0 for the null ray, else                              *)
(* refracted[0] * (remainingHeight / refracted[1])                         *)
Displacement(glassThickness, bezelWidth, y, refracted) ==
    IF ~refracted[1] THEN 0
    ELSE MulH(refracted[2],
              DivD(MulH(y, bezelWidth * B) + glassThickness * B, refracted[3] \div B, 4))

(* the value pushed for the heights y = surfaceFn(x), y2 = surfaceFn(x + dx) *)
Sample(glassThickness, bezelWidth, eta, dx, y, y2) ==
    IF y = NaN \/ y2 = NaN THEN NaN
    ELSE Displacement(glassThickness, bezelWidth, y,
                      Refracted(eta, DivD(y2 - y, dx, 4), Magnitude(DivD(y2 - y, dx, 4))))

(* one iteration of the sample loop: the value pushed for sample i *)
TableEntry(glassThickness, bezelWidth, surfaceFn, eta, samples, i) ==
    Sample(glassThickness, bezelWidth, eta, Dx(DivD(i, samples, 8)),
           CallSurface(surfaceFn, DivD(i, samples, 8)),
           CallSurface(surfaceFn, Max(0, Min(H, DivD(i, samples, 8) + Dx(DivD(i, samples, 8))))))

RECURSIVE TableRange(_, _, _, _, _, _, _)
(* the values the loop pushes for samples lo..hi, in order *)
TableRange(glassThickness, bezelWidth, surfaceFn, eta, samples, lo, hi) ==
    IF lo > hi THEN <<>>
    ELSE IF lo = hi
    THEN <<TableEntry(glassThickness, bezelWidth, surfaceFn, eta, samples, lo)>>
    ELSE TableRange(glassThickness, bezelWidth, surfaceFn, eta, samples, lo, (lo + hi) \div 2)
         \o TableRange(glassThickness, bezelWidth, surfaceFn, eta, samples, (lo + hi) \div 2 + 1, hi)

(* the samples argument ignored: always DefaultSamples entries *)
DisplacementMap1DDefaultSamples(glassThickness, bezelWidth, surfaceFn, refractiveIndex, samples0) ==
    IF surfaceFn = "undefined"
    THEN [threw |-> TRUE, result |-> <<>>]
    ELSE [threw |-> FALSE,
          result |-> TableRange(glassThickness, bezelWidth, surfaceFn,
                                DivD(C, refractiveIndex, 8), DefaultSamples, 0,
                                DefaultSamples - 1)]

(* The result: threw = TRUE when calling surfaceFn raised a TypeError      *)
(* (surfaceFn is undefined and the loop body runs at least once).  A       *)
(* samples argument of 0 is falsy like a missing one: `samples || 128`.    *)
_calculateDisplacementMap1D(glassThickness, bezelWidth, surfaceFn, refractiveIndex, samples0) ==
    LET samples == IF samples0 = 0 THEN DefaultSamples ELSE samples0
        eta == DivD(C, refractiveIndex, 8)
    IN  IF surfaceFn = "undefined"
        THEN [threw |-> TRUE, result |-> <<>>]
        ELSE [threw |-> FALSE,
              result |-> TableRange(glassThickness, bezelWidth, surfaceFn, eta,
                                    samples, 0, samples - 1)]

----------------------------------------------------------------------------
(* Spring (lines 49-71)                                                     *)

(* time steps are in units of 1/T second: 1/60 s = 50, 0.032 s = 96 *)
T == 3 * 10^3

(* new Spring(value, stiffness, damping); a missing or zero stiffness or   *)
(* damping is replaced by 300 or 20                                        *)
Spring(value, stiffness, damping) ==
    [value     |-> value,
     target    |-> value,
     velocity  |-> 0,
     stiffness |-> IF stiffness = 0 THEN 300 ELSE stiffness,
     damping   |-> IF damping = 0 THEN 20 ELSE damping]

setTarget(s, target) == [s EXCEPT !.target = target]

updateUndamped(s, dt) ==
    LET force    == (s.target - s.value) * s.stiffness
        velocity == s.velocity + MulDiv(force, dt, T)
    IN  [s EXCEPT !.velocity = velocity,
                  !.value    = s.value + MulDiv(velocity, dt, T)]

updateExplicit(s, dt) ==
    LET force        == (s.target - s.value) * s.stiffness
        dampingForce == s.velocity * s.damping
    IN  [s EXCEPT !.velocity = s.velocity + MulDiv(force - dampingForce, dt, T),
                  !.value    = s.value + MulDiv(s.velocity, dt, T)]

update(s, dt) ==
    LET force        == (s.target - s.value) * s.stiffness
        dampingForce == s.velocity * s.damping
        velocity     == s.velocity + MulDiv(force - dampingForce, dt, T)
    IN  [s EXCEPT !.velocity = velocity,
                  !.value    = s.value + MulDiv(velocity, dt, T)]

isSettledInclusive(s) ==
    /\ Abs(s.target - s.value) <= S \div 1000
    /\ Abs(s.velocity) <= S \div 1000

isSettled(s) ==
    /\ Abs(s.target - s.value) < S \div 1000
    /\ Abs(s.velocity) < S \div 1000

SpringNames ==
    {"scale", "scaleX", "scaleY", "shadowOffsetX", "shadowOffsetY",
     "shadowBlur", "shadowAlpha", "refractionBoost"}

----------------------------------------------------------------------------
(* defaultOptions (lines 77-96) and the constructor (lines 101-166)         *)

(* the option value 'auto' *)
AUTO == 0 - 1

defaultOptions ==
    [surfaceType     |-> "convex_squircle",
     bezelWidth      |-> 30,
     glassThickness  |-> 150,
     refractiveIndex |-> 150,
     refractionScale |-> 150,
     specularOpacity |-> 100,
     blur            |-> 50,
     borderRadius    |-> AUTO,
     draggable       |-> FALSE,
     springAnimation |-> TRUE,
     springConfig    |-> [stiffness |-> 400, damping |-> 25],
     width           |-> AUTO,
     height          |-> AUTO,
     onDragStart     |-> "null",
     onDrag          |-> "null",
     onDragEnd       |-> "null"]

(* for (key in newOptions) options[key] = newOptions[key] *)
Merge(base, newOptions) ==
    [key \in DOMAIN base \cup DOMAIN newOptions |->
        IF key \in DOMAIN newOptions THEN newOptions[key] ELSE base[key]]

(* this.state of a new instance (lines 127-136) *)
InitialState ==
    [isDragging          |-> FALSE,
     velocityX           |-> 0,
     velocityY           |-> 0,
     lastX               |-> 0,
     lastY               |-> 0,
     maximumDisplacement |-> 0]

(* this.springs of a new instance (lines 139-149) *)
InitialSprings(springConfig) ==
    LET k == springConfig.stiffness
        d == springConfig.damping
    IN  [scale           |-> Spring((85 * S) \div 100, k, d),
         scaleX          |-> Spring(S, k, d + 5),
         scaleY          |-> Spring(S, k, d + 5),
         shadowOffsetX   |-> Spring(0, k, d + 5),
         shadowOffsetY   |-> Spring(4 * S, k, d + 5),
         shadowBlur      |-> Spring(12 * S, k, d + 5),
         shadowAlpha     |-> Spring((15 * S) \div 100, k - 100, d),
         refractionBoost |-> Spring((8 * S) \div 10, k - 100, d - 7)]

(* _setupDOM (lines 203-215): the dimensions kept for the instance's life *)
SetupDimensions(opts, box, cssRadius) ==
    [width        |-> IF opts.width = AUTO THEN box.width ELSE opts.width,
     height       |-> IF opts.height = AUTO THEN box.height ELSE opts.height,
     borderRadius |-> IF opts.borderRadius = AUTO THEN cssRadius ELSE opts.borderRadius]

(* the attributes _createSVGFilter writes into the markup (lines 276-292) *)
InitialFilter(opts) ==
    [displacementHref |-> "",
     specularHref     |-> "",
     scale            |-> 50 * B,
     slope            |-> opts.specularOpacity,
     stdDeviation     |-> opts.blur]

----------------------------------------------------------------------------
(* Rasterizers and _updateFilter (lines 334-500)                            *)

(* The image a rasterizer returns is a pure function of its arguments; it  *)
(* is kept as the record of the arguments it was computed from.            *)
_calculateDisplacementMap2D(canvasWidth, canvasHeight, objectWidth, objectHeight, radius, bezelWidth, maximumDisplacement, precomputedMap) ==
    [width               |-> canvasWidth,
     height              |-> canvasHeight,
     objectWidth         |-> objectWidth,
     objectHeight        |-> objectHeight,
     radius              |-> radius,
     bezelWidth          |-> bezelWidth,
     maximumDisplacement |-> maximumDisplacement,
     precomputedMap      |-> precomputedMap]

(* The pixels of the displacement image (lines 334-388), computed from the *)
(* record of the arguments.  Lengths are whole pixels; distances, opacity,  *)
(* cosines and displacements are in units of 1/B.                           *)

(* every pixel starts as (128, 128, 0, 255): lines 337-342 *)
DisplacementSentinel == <<128, 128, 0, 255>>

(* x (or y) of lines 360-361: the offset from the corner's centre, 0 on a  *)
(* flat edge                                                                *)
Fold(x1, objectWidth, radius) ==
    IF x1 < radius THEN x1 - radius
    ELSE IF x1 >= objectWidth - radius THEN x1 - radius - (objectWidth - radius * 2)
    ELSE 0

(* the lower pixels of the ring kept as well: the test without its second *)
(* conjunct                                                                *)
isInBezelOuterOnly(distanceToCenterSquared, radius, bezelWidth) ==
    distanceToCenterSquared <= (radius + 1) * (radius + 1)

(* isInBezel (line 364) for distanceToCenterSquared *)
isInBezel(distanceToCenterSquared, radius, bezelWidth) ==
    /\ distanceToCenterSquared <= (radius + 1) * (radius + 1)
    /\ distanceToCenterSquared >= Max(0, (radius - bezelWidth) * (radius - bezelWidth))

(* Math.sqrt(distanceToCenterSquared) *)
DistanceFromCenter(distanceToCenterSquared) == ISqrt2(<<distanceToCenterSquared, 0>>)

(* opacity (lines 367-369), for radius >= 0 *)
Opacity(distanceToCenterSquared, distanceFromCenter, radius) ==
    IF distanceToCenterSquared < radius * radius THEN B
    ELSE B - ((distanceFromCenter - radius * B) * B) \div ((radius + 1) * B - radius * B)

(* bezelIndex (lines 374-375): Math.floor of the clamped ratio times the   *)
(* table's length; a zero bezelWidth divides to +Infinity, -Infinity or     *)
(* NaN, which the clamp turns into 1, 0 or NaN                              *)
BezelIndex(distanceFromSide, bezelWidth, length) ==
    IF bezelWidth = 0
    THEN IF distanceFromSide > 0 THEN length
         ELSE IF distanceFromSide < 0 THEN 0 ELSE NaN
    ELSE IF distanceFromSide <= 0 THEN 0
    ELSE IF distanceFromSide >= bezelWidth * B THEN length
    ELSE (distanceFromSide * length) \div (bezelWidth * B)

(* the index of line 376: Math.max(0, Math.min(bezelIndex, length - 1)),   *)
(* which is NaN for a NaN bezelIndex                                       *)
ReadIndex(bezelIndex, length) ==
    IF bezelIndex = NaN THEN NaN ELSE Max(0, Min(bezelIndex, length - 1))

(* distance (line 376): the entry read, or 0 for a NaN or missing one *)
TableAt(precomputedMap, bezelIndex) ==
    IF ReadIndex(bezelIndex, Len(precomputedMap)) \notin 0..(Len(precomputedMap) - 1) THEN 0
    ELSE IF precomputedMap[ReadIndex(bezelIndex, Len(precomputedMap)) + 1] = NaN THEN 0
    ELSE precomputedMap[ReadIndex(bezelIndex, Len(precomputedMap)) + 1]

(* cos (or sin) of lines 372-373 *)
Cosine(x, distanceFromCenter) ==
    IF distanceFromCenter > 0 THEN MulDiv(x * B, B, distanceFromCenter) ELSE 0

(* dX (or dY) of lines 377-378: 0 unless maximumDisplacement > 0 *)
Displaced(cos, distance, maximumDisplacement) ==
    IF maximumDisplacement = NaN \/ maximumDisplacement <= 0 THEN 0
    ELSE 0 - Sgn(distance) * MulDiv(cos, Abs(distance), maximumDisplacement)

(* the byte stored by lines 380-381: clamped and rounded *)
Channel(dX, opacity) ==
    Max(0, Min(255, 128 + MulDiv(MulDiv(dX, opacity, B), 127, B)))

(* the four bytes written for a bezel pixel (lines 380-383) *)
BezelColor(img, x, y, distanceToCenterSquared, distanceFromCenter) ==
    <<Channel(Displaced(Cosine(x, distanceFromCenter),
                        TableAt(img.precomputedMap,
                                BezelIndex(img.radius * B - distanceFromCenter, img.bezelWidth,
                                           Len(img.precomputedMap))),
                        img.maximumDisplacement),
              Opacity(distanceToCenterSquared, distanceFromCenter, img.radius)),
      Channel(Displaced(Cosine(y, distanceFromCenter),
                        TableAt(img.precomputedMap,
                                BezelIndex(img.radius * B - distanceFromCenter, img.bezelWidth,
                                           Len(img.precomputedMap))),
                        img.maximumDisplacement),
              Opacity(distanceToCenterSquared, distanceFromCenter, img.radius)),
      0,
      255>>

(* the corner-folded squared distance of the object's pixel (x1, y1) *)
DistanceToCenterSquared(img, x1, y1) ==
    Fold(x1, img.objectWidth, img.radius) * Fold(x1, img.objectWidth, img.radius)
    + Fold(y1, img.objectHeight, img.radius) * Fold(y1, img.objectHeight, img.radius)

(* the bytes the loop body writes for the object's pixel (x1, y1), a bezel *)
(* pixel                                                                    *)
ObjectPixel(img, x1, y1) ==
    BezelColor(img, Fold(x1, img.objectWidth, img.radius),
               Fold(y1, img.objectHeight, img.radius),
               DistanceToCenterSquared(img, x1, y1),
               DistanceFromCenter(DistanceToCenterSquared(img, x1, y1)))

(* idx (line 354) of the object's pixel (0, 0): objectX and objectY are    *)
(* halves of the margins (lines 349-350), so idx is a whole number, a       *)
(* multiple of 4 only when the margins allow                                *)
FirstIdx(img) ==
    2 * ((img.height - img.objectHeight) * img.width + (img.width - img.objectWidth))

(* byte b of imageData.data, written by the iteration n = y1 * canvasWidth *)
(* + x1 as its c-th byte, when there is such an iteration of a bezel pixel  *)
WrittenByte(img, b, n, c) ==
    IF /\ n % img.width < img.objectWidth
       /\ n \div img.width < img.objectHeight
       /\ isInBezel(DistanceToCenterSquared(img, n % img.width, n \div img.width),
                    img.radius, img.bezelWidth)
    THEN ObjectPixel(img, n % img.width, n \div img.width)[c + 1]
    ELSE DisplacementSentinel[(b % 4) + 1]

DataByte(img, b) ==
    IF b < FirstIdx(img) THEN DisplacementSentinel[(b % 4) + 1]
    ELSE WrittenByte(img, b, (b - FirstIdx(img)) \div 4, (b - FirstIdx(img)) % 4)

(* imageData of the displacement map: canvasWidth x canvasHeight pixels of *)
(* four bytes                                                               *)
ImageData(img) ==
    [width  |-> img.width,
     height |-> img.height,
     data   |-> [b \in 0..(img.width * img.height * 4 - 1) |-> DataByte(img, b)]]

_calculateSpecularHighlight(objectWidth, objectHeight, radius, bezelWidth) ==
    [width      |-> objectWidth,
     height     |-> objectHeight,
     radius     |-> radius,
     bezelWidth |-> bezelWidth]

(* The pixels of the specular highlight (lines 390-438), for the arguments *)
(* img with the fifth argument img.specularAngle in degrees.  Cosines,     *)
(* ratios and coefficients are in units of 1/B.                            *)

(* specularAngle = specularAngle || Math.PI / 3 and specularVector (lines  *)
(* 391, 393): <<cos, sin>> of 60 degrees unless 90 degrees are asked for   *)
SpecularVector(specularAngle) ==
    IF specularAngle = 90 THEN <<0, B>> ELSE <<B \div 2, 8660>>

(* the corner-folded squared distance of pixel (x1, y1) (lines 403-412) *)
SpecularDistanceSquared(img, x1, y1) ==
    Fold(x1, img.width, img.radius) * Fold(x1, img.width, img.radius)
    + Fold(y1, img.height, img.radius) * Fold(y1, img.height, img.radius)

(* the highlight as wide as the bezel: bezelWidth for specularThickness *)
isNearEdgeOfBezel(img, distanceToCenterSquared) ==
    /\ distanceToCenterSquared <= (img.radius + 1) * (img.radius + 1)
    /\ distanceToCenterSquared
         >= (img.radius - img.bezelWidth) * (img.radius - img.bezelWidth)

(* isNearEdge (line 413) with specularThickness = 1.5 (line 394): both     *)
(* sides of the lower bound times 4                                        *)
isNearEdge(img, distanceToCenterSquared) ==
    /\ distanceToCenterSquared <= (img.radius + 1) * (img.radius + 1)
    /\ 4 * distanceToCenterSquared >= (2 * img.radius - 3) * (2 * img.radius - 3)

(* dotProduct (line 423) *)
DotProduct(cos, sin, specularVector) ==
    MulDiv(Abs(cos * specularVector[1] + sin * specularVector[2]), 1, B)

(* edgeRatio (line 424): distanceFromSide / 1.5 clamped to [0, 1] *)
EdgeRatio(distanceFromSide) ==
    Max(0, Min(B, MulDiv(distanceFromSide, 2, 3)))

(* sharpFalloff (line 425) *)
SharpFalloff(edgeRatio) ==
    ISqrt2(<<(B * B - (B - edgeRatio) * (B - edgeRatio)) \div H,
             (B * B - (B - edgeRatio) * (B - edgeRatio)) % H>>)

(* coefficient (line 426) *)
Coefficient(img, x, y, distanceFromCenter) ==
    MulDiv(DotProduct(Cosine(x, distanceFromCenter), Cosine(0 - y, distanceFromCenter),
                      SpecularVector(img.specularAngle)),
           SharpFalloff(EdgeRatio(img.radius * B - distanceFromCenter)), B)

(* the four bytes stored for a pixel near the edge (lines 427-433): color  *)
(* three times and finalOpacity, rounded by the clamped array              *)
SpecularColor(coefficient, opacity) ==
    <<Min(255, MulDiv(coefficient, 255, B)),
      Min(255, MulDiv(coefficient, 255, B)),
      Min(255, MulDiv(coefficient, 255, B)),
      Min(255, MulDiv(MulDiv(MulDiv(coefficient, coefficient, B), opacity, B), 255, B))>>

(* the bytes of pixel (x1, y1): those stored, or the zeros of a new        *)
(* ImageData                                                               *)
SpecularPixel(img, x1, y1) ==
    IF isNearEdge(img, SpecularDistanceSquared(img, x1, y1))
    THEN SpecularColor(
             Coefficient(img, Fold(x1, img.width, img.radius),
                         Fold(y1, img.height, img.radius),
                         DistanceFromCenter(SpecularDistanceSquared(img, x1, y1))),
             Opacity(SpecularDistanceSquared(img, x1, y1),
                     DistanceFromCenter(SpecularDistanceSquared(img, x1, y1)), img.radius))
    ELSE <<0, 0, 0, 0>>

(* imageData of the specular highlight: objectWidth x objectHeight pixels *)
SpecularImageData(img) ==
    [width  |-> img.width,
     height |-> img.height,
     data   |-> [b \in 0..(img.width * img.height * 4 - 1) |->
                    SpecularPixel(img, (b \div 4) % img.width,
                                  (b \div 4) \div img.width)[(b % 4) + 1]]]

(* Math.max of two numbers: NaN if either is *)
MathMax(l, r) == IF l = NaN \/ r = NaN THEN NaN ELSE Max(l, r)

RECURSIVE MaxAbsRange(_, _, _)
MaxAbsRange(t, lo, hi) ==
    IF lo = hi THEN (IF t[lo] = NaN THEN NaN ELSE Abs(t[lo]))
    ELSE MathMax(MaxAbsRange(t, lo, (lo + hi) \div 2),
                 MaxAbsRange(t, (lo + hi) \div 2 + 1, hi))

(* Math.max.apply(null, precomputed.map(Math.abs)), for a non-empty table *)
MaxAbs(t) == MaxAbsRange(t, 1, Len(t))

(* a * b for a in units of 1/B and b in units of 1/unit; NaN is absorbing *)
Times(a, b, unit) == IF a = NaN \/ b = NaN THEN NaN ELSE MulH(a, b * (H \div unit))

(* the substitution left out *)
OrItself(x) == x

(* x || 1, for a number x in units of 1/B *)
OrOne(x) == IF x = 0 \/ x = NaN THEN B ELSE x

(* The refraction tables of the option values the model uses, computed     *)
(* once: Solve is _calculateDisplacementMap1D with its samples omitted.    *)
TableInputs ==
    {<<gt[1], gt[2], fn, ri>> :
        gt \in {<<150, 30>>, <<150, 20>>, <<0, 0>>, <<0, 20>>},
        fn \in {"convex_squircle", "concave", "constructor", "toString", "undefined"},
        ri \in {150, 120}}

Tables ==
    {<<a, _calculateDisplacementMap1D(a[1], a[2], a[3], a[4], 0)>> : a \in TableInputs}

Solve(glassThickness, bezelWidth, surfaceFn, refractiveIndex) ==
    LET a == <<glassThickness, bezelWidth, surfaceFn, refractiveIndex>>
    IN  IF a \in TableInputs
        THEN (CHOOSE p \in Tables : p[1] = a)[2]
        ELSE _calculateDisplacementMap1D(glassThickness, bezelWidth, surfaceFn, refractiveIndex, 0)

(* _updateFilter(): the new state.maximumDisplacement and filter, the       *)
(* exception raised and the functions run.  The filter primitives are      *)
(* found by id only while the filter SVG is in the document, that is       *)
(* until destroy(); _updateContentClonePosition reads this.element         *)
(* unless the backdrop filter is used.                                     *)
Rasterize(opts, dims, st, flt, el, backdrop, precomputed, maximumDisplacement) ==
    [state  |-> [st EXCEPT !.maximumDisplacement = maximumDisplacement],
     filter |-> IF el # "null"
                THEN [displacementHref |->
                          _calculateDisplacementMap2D(dims.width, dims.height,
                                                      dims.width, dims.height,
                                                      dims.borderRadius, opts.bezelWidth,
                                                      OrOne(maximumDisplacement), precomputed),
                      specularHref     |->
                          _calculateSpecularHighlight(dims.width, dims.height,
                                                      dims.borderRadius, opts.bezelWidth),
                      scale            |-> Times(maximumDisplacement, opts.refractionScale, C),
                      slope            |-> opts.specularOpacity,
                      stdDeviation     |-> opts.blur]
                ELSE flt,
     thrown |-> IF el = "null" /\ ~backdrop THEN "TypeError" ELSE "none",
     calls  |-> {"_updateFilter", "_calculateDisplacementMap1D",
                 "_calculateDisplacementMap2D", "_calculateSpecularHighlight",
                 "_updateContentClonePosition"}]

Solved(opts, dims, st, flt, el, backdrop, solved) ==
    IF solved.threw
    THEN [state  |-> st,
          filter |-> flt,
          thrown |-> "TypeError",
          calls  |-> {"_updateFilter", "_calculateDisplacementMap1D"}]
    ELSE Rasterize(opts, dims, st, flt, el, backdrop, solved.result, MaxAbs(solved.result))

_updateFilter(opts, dims, st, flt, el, backdrop) ==
    Solved(opts, dims, st, flt, el, backdrop,
           Solve(opts.glassThickness, opts.bezelWidth, SurfaceEquations(opts.surfaceType),
                 opts.refractiveIndex))

----------------------------------------------------------------------------
(* The animation loop (lines 647-735)                                       *)

(* requestAnimationFrame: a handle no pending or remembered frame has *)
requestAnimationFrame(frs, id) ==
    CHOOSE f \in 1..(Cardinality(frs) + 2) :
        /\ f \notin frs \cup {id}
        /\ \A g \in 1..(f - 1) : g \in frs \cup {id}

(* the guard on animationFrameId inverted *)
StartLoopWhenRunning(id, frs, opts) ==
    IF id # NULL /\ opts.springAnimation
    THEN <<requestAnimationFrame(frs, id), frs \cup {requestAnimationFrame(frs, id)}>>
    ELSE <<id, frs>>

(* the guard on animationFrameId dropped *)
StartLoopUnguarded(id, frs, opts) ==
    IF opts.springAnimation
    THEN <<requestAnimationFrame(frs, id), frs \cup {requestAnimationFrame(frs, id)}>>
    ELSE <<id, frs>>

(* _startAnimationLoop(): <<animationFrameId, frames>> afterwards *)
_startAnimationLoop(id, frs, opts) ==
    IF id = NULL /\ opts.springAnimation
    THEN <<requestAnimationFrame(frs, id), frs \cup {requestAnimationFrame(frs, id)}>>
    ELSE <<id, frs>>

(* floor(sqrt(n)) for 0 <= n < 2^31 *)
ISqrt(n) == ISqrt2(<<n \div H, n % H>>)

(* the idle refractionBoost target left at 1.0 *)
ModeTargetsBoostOne(isDragging) ==
    IF isDragging
    THEN [scale |-> S, shadowOffsetX |-> 4 * S, shadowOffsetY |-> 16 * S,
          shadowBlur |-> 24 * S, shadowAlpha |-> (22 * S) \div 100,
          refractionBoost |-> S]
    ELSE [scale |-> (85 * S) \div 100, shadowOffsetX |-> 0, shadowOffsetY |-> 4 * S,
          shadowBlur |-> 12 * S, shadowAlpha |-> (15 * S) \div 100,
          refractionBoost |-> S]

(* the targets _animationLoop sets from the drag flag (lines 651-665) *)
ModeTargets(isDragging) ==
    IF isDragging
    THEN [scale |-> S, shadowOffsetX |-> 4 * S, shadowOffsetY |-> 16 * S,
          shadowBlur |-> 24 * S, shadowAlpha |-> (22 * S) \div 100,
          refractionBoost |-> S]
    ELSE [scale |-> (85 * S) \div 100, shadowOffsetX |-> 0, shadowOffsetY |-> 4 * S,
          shadowBlur |-> 12 * S, shadowAlpha |-> (15 * S) \div 100,
          refractionBoost |-> (8 * S) \div 10]

(* the scaleX and scaleY targets from the pointer velocity (lines 667-684) *)
Squish(squishAmount, vxNorm, vyNorm) ==
    [scaleX |-> S + (squishAmount * vxNorm) \div B - ((squishAmount \div 2) * vyNorm) \div B,
     scaleY |-> S + (squishAmount * vyNorm) \div B - ((squishAmount \div 2) * vxNorm) \div B]

(* the threshold included: squish from 50 px/s on *)
SquishTargetsFromFifty(velocityX, velocityY, velocityMagnitude) ==
    IF velocityMagnitude >= 50 * VS
    THEN Squish(Min((15 * S) \div 100, (velocityMagnitude * (S \div 1000)) \div (3 * VS)),
                (Abs(velocityX) * B) \div velocityMagnitude,
                (Abs(velocityY) * B) \div velocityMagnitude)
    ELSE [scaleX |-> S, scaleY |-> S]

SquishTargets(velocityX, velocityY, velocityMagnitude) ==
    IF velocityMagnitude > 50 * VS
    THEN Squish(Min((15 * S) \div 100, (velocityMagnitude * (S \div 1000)) \div (3 * VS)),
                (Abs(velocityX) * B) \div velocityMagnitude,
                (Abs(velocityY) * B) \div velocityMagnitude)
    ELSE [scaleX |-> S, scaleY |-> S]

(* Math.sqrt(velocityX^2 + velocityY^2) (line 667), in units of 1/VS *)
VelocityMagnitude(velocityX, velocityY) ==
    ISqrt(velocityX * velocityX + velocityY * velocityY)

(* Math.min(0.032, 1 / 60) *)
FrameDt == Min((32 * T) \div 1000, T \div 60)

(* every spring stepped with the 0.032 s of the cap instead of 1/60 s *)
StepSpringsLongFrame(sp, mode, squish) ==
    [scale           |-> update(setTarget(sp.scale, mode.scale), (32 * T) \div 1000),
     scaleX          |-> update(setTarget(sp.scaleX, squish.scaleX), (32 * T) \div 1000),
     scaleY          |-> update(setTarget(sp.scaleY, squish.scaleY), (32 * T) \div 1000),
     shadowOffsetX   |-> update(setTarget(sp.shadowOffsetX, mode.shadowOffsetX), (32 * T) \div 1000),
     shadowOffsetY   |-> update(setTarget(sp.shadowOffsetY, mode.shadowOffsetY), (32 * T) \div 1000),
     shadowBlur      |-> update(setTarget(sp.shadowBlur, mode.shadowBlur), (32 * T) \div 1000),
     shadowAlpha     |-> update(setTarget(sp.shadowAlpha, mode.shadowAlpha), (32 * T) \div 1000),
     refractionBoost |-> update(setTarget(sp.refractionBoost, mode.refractionBoost),
                                (32 * T) \div 1000)]

(* the springs after the setTarget calls and the eight update calls *)
StepSprings(sp, mode, squish) ==
    [scale           |-> update(setTarget(sp.scale, mode.scale), FrameDt),
     scaleX          |-> update(setTarget(sp.scaleX, squish.scaleX), FrameDt),
     scaleY          |-> update(setTarget(sp.scaleY, squish.scaleY), FrameDt),
     shadowOffsetX   |-> update(setTarget(sp.shadowOffsetX, mode.shadowOffsetX), FrameDt),
     shadowOffsetY   |-> update(setTarget(sp.shadowOffsetY, mode.shadowOffsetY), FrameDt),
     shadowBlur      |-> update(setTarget(sp.shadowBlur, mode.shadowBlur), FrameDt),
     shadowAlpha     |-> update(setTarget(sp.shadowAlpha, mode.shadowAlpha), FrameDt),
     refractionBoost |-> update(setTarget(sp.refractionBoost, mode.refractionBoost), FrameDt)]

(* the decay left out *)
DecayNone(v) == v

(* v *= 0.95 *)
Decay(v) == Sgn(v) * ((Abs(v) * 95) \div 100)

(* the decay applied during a drag as well *)
DecayVelocityAlways(st) ==
    [st EXCEPT !.velocityX = Decay(st.velocityX), !.velocityY = Decay(st.velocityY)]

(* the state after the velocity decay (lines 709-712) *)
DecayVelocity(st) ==
    IF st.isDragging THEN st
    ELSE [st EXCEPT !.velocityX = Decay(st.velocityX), !.velocityY = Decay(st.velocityY)]

(* the static scale of _updateFilter, without the boost *)
PublishedScaleStatic(maximumDisplacement, refractionScale, refractionBoost) ==
    Times(maximumDisplacement, refractionScale, C)

(* the scale attribute a tick writes (lines 703-707) *)
PublishedScale(maximumDisplacement, refractionScale, refractionBoost) ==
    Times(maximumDisplacement, (refractionScale * refractionBoost) \div C, S)

(* the pointer velocity left out of the test *)
AllSettledSprings(sp, st) == \A n \in SpringNames : isSettled(sp[n])

(* allSettled (lines 714-721) *)
AllSettled(sp, st) ==
    /\ \A n \in SpringNames : isSettled(sp[n])
    /\ Abs(st.velocityX) < VS
    /\ Abs(st.velocityY) < VS

----------------------------------------------------------------------------
(* Bounds and inputs of the model                                           *)

(* handlers (pointer events, setOptions, resize, destroy) per behaviour *)
MaxEvents == 2

(* a handler runs at most MaxGap ticks after the previous one, or when no  *)
(* frame is pending                                                        *)
MaxGap == 1

(* the options passed to the constructor *)
ConstructorOptions ==
    {[draggable |-> TRUE],
     [draggable |-> TRUE, springAnimation |-> FALSE],
     [width |-> 120, height |-> 80, borderRadius |-> 10]}

(* the argument of setOptions *)
OptionChanges ==
    {[surfaceType |-> "concave"],
     [surfaceType |-> "foo"],
     [surfaceType |-> "constructor"],
     [surfaceType |-> "toString"],
     [bezelWidth |-> 20],
     [refractiveIndex |-> 120],
     [glassThickness |-> 0, bezelWidth |-> 0],
     [refractionScale |-> 200],
     [specularOpacity |-> 50],
     [blur |-> 100],
     [width |-> 300, height |-> 150],
     [borderRadius |-> 40]}

(* layout boxes of the element, the first one at construction *)
InitialBox == [width |-> 200, height |-> 100]

Boxes == {InitialBox, [width |-> 320, height |-> 100]}

(* the element's computed border radius *)
CssRadius == 20

(* pointer positions (px) and the milliseconds between two pointer events *)
Pointers == {<<0, 0>>, <<10, 0>>, <<3, 4>>}

ElapsedMs == {20, 100}

----------------------------------------------------------------------------
(* Construction: the constructor and _init (lines 101-179)                  *)

(* the script holds no object and has called nothing *)
NoObject == [kind |-> "none"]

NoCall == [name |-> "none"]

(* _init (lines 168-179): the first _updateFilter, the listeners, the      *)
(* initial scale and the first frame request                               *)
_init(opts, dims, built) ==
    [options          |-> opts,
     dimensions       |-> dims,
     state            |-> built.state,
     springs          |-> IF opts.springAnimation
                          THEN [InitialSprings(opts.springConfig) EXCEPT
                                    !.scale.value  = (85 * S) \div 100,
                                    !.scale.target = (85 * S) \div 100]
                          ELSE InitialSprings(opts.springConfig),
     filter           |-> built.filter,
     animationFrameId |-> _startAnimationLoop(NULL, {}, opts)[1],
     frames           |-> _startAnimationLoop(NULL, {}, opts)[2],
     listening        |-> opts.draggable]

Constructed(opts, dims, backdrop) ==
    _init(opts, dims,
          _updateFilter(opts, dims, InitialState, InitialFilter(opts), "div", backdrop))

New(newOptions, backdrop) ==
    Constructed(Merge(defaultOptions, newOptions),
                SetupDimensions(Merge(defaultOptions, newOptions), InitialBox, CssRadius),
                backdrop)

Init ==
    \E newOptions \in ConstructorOptions :
        \E this \in {New(newOptions, FALSE)} :
            /\ options = this.options
            /\ dimensions = this.dimensions
            /\ rect = InitialBox
            /\ state = this.state
            /\ springs = this.springs
            /\ animationFrameId = this.animationFrameId
            /\ frames = this.frames
            /\ element = "div"
            /\ listening = this.listening
            /\ filter = this.filter
            /\ thrown = "none"
            /\ calls = {"constructor"}
            /\ events = 0
            /\ gap = 0
            /\ held = NoObject
            /\ call = NoCall

----------------------------------------------------------------------------
(* Handlers                                                                 *)

(* a handler has run: one more event, no tick since *)
Ran == events' = events + 1 /\ gap' = 0

(* The pointer listeners are registered for a draggable instance and       *)
(* removed by destroy() (the option changes of the model leave draggable   *)
(* alone), so a pointer handler runs on a live element.                    *)

(* what destroy() (lines 752-784) does to a live instance: the frame named *)
(* by animationFrameId is cancelled, the pointer listeners of a draggable  *)
(* instance are removed and the element reference is cleared;              *)
(* animationFrameId keeps its value                                        *)
destroy(lis, frs, id, opts) ==
    [element   |-> "null",
     listening |-> IF opts.draggable THEN FALSE ELSE lis,
     frames    |-> frs \ {id},
     calls     |-> {"destroy"} \cup (IF id # NULL THEN {"cancelAnimationFrame"} ELSE {})]

(* The callbacks of the model: "null" (none configured), "log" (a function *)
(* that leaves the instance alone) and "destroy" (function (glass) {       *)
(* glass.destroy(); }).                                                    *)
Callbacks == {"null", "log", "destroy"}

(* if (this.options.<name>) this.options.<name>(this): the element, the    *)
(* listeners and the pending frames afterwards, and the calls made         *)
Callback(fn, name, el, lis, frs, id, opts) ==
    IF fn = "destroy"
    THEN [destroy(lis, frs, id, opts) EXCEPT !.calls = @ \cup {name}]
    ELSE [element |-> el, listening |-> lis, frames |-> frs,
          calls |-> IF fn = "null" THEN {} ELSE {name}]

(* mousedown / touchstart: _startDrag (lines 563-582) *)
StartDrag(clientX, clientY) ==
    /\ listening
    /\ \E after \in {Callback(options.onDragStart, "onDragStart", element, listening, frames,
                               animationFrameId, options)} :
       \E loop \in {_startAnimationLoop(animationFrameId, after.frames, options)} :
           /\ state' = [state EXCEPT !.isDragging = TRUE,
                                     !.lastX = clientX, !.lastY = clientY,
                                     !.velocityX = 0, !.velocityY = 0]
           /\ element' = after.element
           /\ listening' = after.listening
           /\ animationFrameId' = loop[1]
           /\ frames' = loop[2]
           /\ thrown' = "none"
           /\ calls' = {"_startDrag", "_startAnimationLoop"} \cup after.calls
    /\ Ran
    /\ UNCHANGED <<options, dimensions, rect, springs, filter, held, call>>

(* mousemove / touchmove: _handleMouseMove and _drag (lines 539-549,       *)
(* 584-618), for an element that has a parent                              *)
Drag(clientX, clientY, elapsed) ==
    /\ listening
    /\ IF ~state.isDragging
       THEN /\ calls' = {"_handleMouseMove"}
            /\ thrown' = "none"
            /\ UNCHANGED <<state, element, listening, frames>>
       ELSE \E after \in {Callback(options.onDrag, "onDrag", element, listening, frames,
                                  animationFrameId, options)} :
            /\ state' = [state EXCEPT
                   !.velocityX = ((clientX - state.lastX) * 1000 * VS) \div Max(1, elapsed),
                   !.velocityY = ((clientY - state.lastY) * 1000 * VS) \div Max(1, elapsed),
                   !.lastX = clientX, !.lastY = clientY]
            /\ element' = after.element
            /\ listening' = after.listening
            /\ frames' = after.frames
            /\ calls' = {"_handleMouseMove", "_drag", "_updateContentClonePosition"}
                         \cup after.calls
            /\ thrown' = IF after.element = "null" THEN "TypeError" ELSE "none"
    /\ Ran
    /\ UNCHANGED <<options, dimensions, rect, springs, animationFrameId, filter, held, call>>

(* _endDrag without the early return of a pointer that is not down *)
EndDragUnguarded ==
    /\ listening
    /\ \E after \in {Callback(options.onDragEnd, "onDragEnd", element, listening, frames,
                               animationFrameId, options)} :
       \E loop \in {IF after.element = "null"
                    THEN <<animationFrameId, after.frames>>
                    ELSE _startAnimationLoop(animationFrameId, after.frames, options)} :
           /\ state' = [state EXCEPT !.isDragging = FALSE]
           /\ element' = after.element
           /\ listening' = after.listening
           /\ animationFrameId' = loop[1]
           /\ frames' = loop[2]
           /\ calls' = {"_endDrag", "_updateContentClonePosition"} \cup after.calls
                        \cup (IF after.element = "null" THEN {} ELSE {"_startAnimationLoop"})
           /\ thrown' = IF after.element = "null" THEN "TypeError" ELSE "none"
    /\ Ran
    /\ UNCHANGED <<options, dimensions, rect, springs, filter, held, call>>

(* mouseup / touchend: _endDrag (lines 620-645) *)
EndDrag ==
    /\ listening
    /\ IF ~state.isDragging
       THEN /\ calls' = {"_endDrag"}
            /\ thrown' = "none"
            /\ UNCHANGED <<state, animationFrameId, frames, element, listening>>
       ELSE \E after \in {Callback(options.onDragEnd, "onDragEnd", element, listening, frames,
                                  animationFrameId, options)} :
            \E loop \in {IF after.element = "null"
                         THEN <<animationFrameId, after.frames>>
                         ELSE _startAnimationLoop(animationFrameId, after.frames, options)} :
                /\ state' = [state EXCEPT !.isDragging = FALSE]
                /\ element' = after.element
                /\ listening' = after.listening
                /\ animationFrameId' = loop[1]
                /\ frames' = loop[2]
                /\ calls' = {"_endDrag", "_updateContentClonePosition"} \cup after.calls
                             \cup (IF after.element = "null" THEN {}
                                   ELSE {"_startAnimationLoop"})
                /\ thrown' = IF after.element = "null" THEN "TypeError" ELSE "none"
    /\ Ran
    /\ UNCHANGED <<options, dimensions, rect, springs, filter, held, call>>

(* the browser runs a pending frame: _animationLoop (lines 647-728).       *)
(* destroy() cancels the frame pending when it is called; a frame that is  *)
(* requested after it runs with this.element null: the eight springs are   *)
(* stepped (686-693) and line 695 throws a TypeError.                      *)
Tick(cap) ==
    \E f \in frames :
    \E velocityMagnitude \in {VelocityMagnitude(state.velocityX, state.velocityY)} :
    \E squish \in {SquishTargets(state.velocityX, state.velocityY, velocityMagnitude)} :
    \E stepped \in {StepSprings(springs, ModeTargets(state.isDragging), squish)} :
        LET decayed == DecayVelocity(state)
            allSettled == AllSettled(stepped, decayed)
            next == requestAnimationFrame(frames \ {f}, animationFrameId)
        IN  /\ springs' = stepped
            /\ IF element = "null"
               THEN /\ thrown' = "TypeError"
                    /\ frames' = frames \ {f}
                    /\ UNCHANGED <<filter, state, animationFrameId>>
               ELSE /\ thrown' = "none"
                    /\ filter' = [filter EXCEPT
                           !.scale = PublishedScale(state.maximumDisplacement,
                                                    options.refractionScale,
                                                    stepped.refractionBoost.value)]
                    /\ state' = decayed
                    /\ animationFrameId' = IF allSettled THEN NULL ELSE next
                    /\ frames' = IF allSettled THEN frames \ {f}
                                  ELSE (frames \ {f}) \cup {next}
            /\ calls' = {"_animationLoop"}
            /\ gap' = Min(gap + 1, cap)
            /\ UNCHANGED <<options, dimensions, rect, element, listening, events, held, call>>

(* setOptions(newOptions) (lines 737-742) *)
SetOptions(newOptions) ==
    /\ \E built \in {_updateFilter(Merge(options, newOptions), dimensions, state, filter,
                                    element, FALSE)} :
           /\ options' = Merge(options, newOptions)
           /\ state' = built.state
           /\ filter' = built.filter
           /\ thrown' = built.thrown
           /\ calls' = built.calls \cup {"setOptions"}
    /\ Ran
    /\ UNCHANGED <<dimensions, rect, springs, animationFrameId, frames, element, listening,
                   held, call>>

(* the window is resized and the element laid out in a new box:            *)
(* _handleResize (lines 559-561)                                           *)
Resize(box) ==
    /\ element # "null"
    /\ rect' = box
    /\ thrown' = "none"
    /\ calls' = {"_handleResize", "_updateContentClonePosition"}
    /\ Ran
    /\ UNCHANGED <<options, dimensions, state, springs, animationFrameId, frames,
                   element, listening, filter, held, call>>

(* destroy() (lines 752-784): a second call reads this.element, now null *)
Destroy ==
    /\ IF element = "null"
       THEN /\ thrown' = "TypeError"
            /\ UNCHANGED <<element, listening>>
       ELSE /\ thrown' = "none"
            /\ element' = "null"
            /\ listening' = IF options.draggable THEN FALSE ELSE listening
    /\ frames' = frames \ {animationFrameId}
    /\ calls' = {"destroy"} \cup (IF animationFrameId # NULL THEN {"cancelAnimationFrame"} ELSE {})
    /\ Ran
    /\ UNCHANGED <<options, dimensions, rect, state, springs, animationFrameId, filter,
                   held, call>>

(* the environment runs a handler now: at most MaxEvents of them, each at  *)
(* most MaxGap ticks after the previous one unless the loop has stopped    *)
MayRun == events < MaxEvents /\ (gap <= MaxGap \/ frames = {})

Next ==
    \/ MayRun /\ \E p \in Pointers : StartDrag(p[1], p[2])
    \/ MayRun /\ \E p \in Pointers, ms \in ElapsedMs : Drag(p[1], p[2], ms)
    \/ MayRun /\ EndDrag
    \/ MayRun /\ \E newOptions \in OptionChanges : SetOptions(newOptions)
    \/ MayRun /\ \E box \in Boxes : Resize(box)
    \/ MayRun /\ Destroy
    \/ Tick(MaxGap + 1)

Spec == Init /\ [][Next]_vars

----------------------------------------------------------------------------
(* An instance with callbacks: a draggable instance whose onDragStart,     *)
(* onDrag and onDragEnd options are functions, at most one of which calls  *)
(* destroy() on the instance it is handed.                                 *)

MaxPointerEvents == 3

CallbackOptions ==
    {[draggable |-> TRUE,
      onDragStart |-> fns[1], onDrag |-> fns[2], onDragEnd |-> fns[3]] :
        fns \in {<<"log", "log", "log">>, <<"destroy", "log", "log">>,
                 <<"log", "destroy", "log">>, <<"log", "log", "destroy">>}}

InitCallbacks ==
    \E newOptions \in CallbackOptions :
        \E this \in {New(newOptions, FALSE)} :
            /\ options = this.options
            /\ dimensions = this.dimensions
            /\ rect = InitialBox
            /\ state = this.state
            /\ springs = this.springs
            /\ animationFrameId = this.animationFrameId
            /\ frames = this.frames
            /\ element = "div"
            /\ listening = this.listening
            /\ filter = this.filter
            /\ thrown = "none"
            /\ calls = {"constructor"}
            /\ events = 0
            /\ gap = 0
            /\ held = NoObject
            /\ call = NoCall

(* the environment delivers a pointer event now *)
MayPoint == events < MaxPointerEvents /\ (gap <= MaxGap \/ frames = {})

NextCallbacks ==
    \/ MayPoint /\ \E p \in Pointers : StartDrag(p[1], p[2])
    \/ MayPoint /\ \E p \in Pointers, ms \in ElapsedMs : Drag(p[1], p[2], ms)
    \/ MayPoint /\ EndDrag
    \/ MayPoint /\ Destroy
    \/ Tick(MaxGap + 1)

SpecCallbacks == InitCallbacks /\ [][NextCallbacks]_vars

----------------------------------------------------------------------------
(* The drag scenario: a draggable instance with the default spring         *)
(* configuration; the pointer goes down, moves at 500 px/s for 200 ms in   *)
(* Moves pointer events MoveMs apart, and is released.  At 60 frames a     *)
(* second the browser runs FramesPerMove frames between two pointer        *)
(* events, give or take one, and every pending frame eventually runs.      *)

(* pointer moves in the 200 ms *)
Moves == 4

MoveMs == 200 \div Moves

MoveStep == (500 * MoveMs) \div 1000

FramesPerMove == (MoveMs * 60) \div 1000

(* ticks counted after the release *)
MaxTicks == 160

InitDrag == Init /\ options.draggable /\ options.springAnimation

ScenarioStart == events = 0 /\ StartDrag(0, 0)

ScenarioMove ==
    events \in 1..Moves /\ gap >= FramesPerMove - 1 /\ Drag(MoveStep * events, 0, MoveMs)

ScenarioRelease == events = Moves + 1 /\ gap >= FramesPerMove - 1 /\ EndDrag

ScenarioTick == (events <= Moves + 1 => gap < FramesPerMove) /\ Tick(MaxTicks)

NextDrag == ScenarioStart \/ ScenarioMove \/ ScenarioRelease \/ ScenarioTick

SpecDrag == InitDrag /\ [][NextDrag]_vars /\ WF_vars(NextDrag)

----------------------------------------------------------------------------
(* The script reads the options back: getOptions (lines 744-750) builds a  *)
(* fresh object and copies every key of this.options into it.  The model   *)
(* keeps the object's identity in the field `same`: TRUE when the object   *)
(* is this.options itself, so that a write to it is a write to the         *)
(* instance's options.                                                     *)

getOptionsSameObject(opts) ==
    [kind |-> "options", same |-> TRUE, object |-> opts]

getOptions(opts) ==
    [kind   |-> "options",
     same   |-> FALSE,
     object |-> [key \in DOMAIN opts |-> opts[key]]]

(* what the script writes into the object it got *)
Assignments == {[blur |-> 999], [surfaceType |-> "lip"], [draggable |-> TRUE]}

(* var o = glass.getOptions() *)
GetOptions ==
    /\ held' = getOptions(options)
    /\ call' = [name |-> "getOptions", returned |-> held']
    /\ thrown' = "none"
    /\ calls' = {"getOptions"}
    /\ Ran
    /\ UNCHANGED <<options, dimensions, rect, state, springs, animationFrameId, frames,
                   element, listening, filter>>

(* o[key] = value, for each key of the assignment *)
AssignCopy(assignment) ==
    /\ held.kind = "options"
    /\ held' = [held EXCEPT !.object = Merge(held.object, assignment)]
    /\ options' = IF held.same THEN Merge(options, assignment) ELSE options
    /\ call' = [name |-> "assign", args |-> assignment]
    /\ thrown' = "none"
    /\ calls' = {}
    /\ Ran
    /\ UNCHANGED <<dimensions, rect, state, springs, animationFrameId, frames,
                   element, listening, filter>>

(* one call more than MaxEvents: a change, a read and a write *)
MayCall == events < MaxEvents + 1

NextOptions ==
    \/ MayCall /\ \E newOptions \in OptionChanges : SetOptions(newOptions)
    \/ MayCall /\ GetOptions
    \/ MayCall /\ \E assignment \in Assignments : AssignCopy(assignment)

SpecOptions == Init /\ [][NextOptions]_vars

----------------------------------------------------------------------------
(* The script uses the exported Spring class (lines 27 and 823) on its     *)
(* own: it creates a spring, then sets its target, writes its velocity     *)
(* field, steps it and asks whether it is settled, in any order.  The      *)
(* instance on the page is not touched.                                    *)

instance == <<options, dimensions, rect, state, springs, animationFrameId, frames,
              element, listening, filter, thrown, calls, gap>>

MaxCalls == 4

(* values in units of 1/S: 0.001 is S \div 1000 *)
SpringValues == {0, (85 * S) \div 100, S}

SpringConfigs == {[stiffness |-> 400, damping |-> 25], [stiffness |-> 0, damping |-> 0]}

SpringTargets == {(85 * S) \div 100, S, S + S \div 1000, S + S \div 1000 - 1}

SpringVelocities == {0, S \div 1000, 0 - S \div 1000, S \div 1000 - 1, S \div 2}

(* dt in units of 1/T second: 0, 1/60 s and the tick's cap 0.032 s *)
SpringSteps == {0, T \div 60, (32 * T) \div 1000}

(* held = new Spring(value, stiffness, damping) *)
NewSpring(value, stiffness, damping) ==
    /\ held = NoObject
    /\ held' = [kind |-> "Spring", spring |-> Spring(value, stiffness, damping)]
    /\ call' = [name |-> "Spring", args |-> <<value, stiffness, damping>>]
    /\ events' = events + 1
    /\ UNCHANGED instance

(* held.setTarget(target) *)
SpringSetTarget(target) ==
    /\ held.kind = "Spring"
    /\ held' = [held EXCEPT !.spring = setTarget(held.spring, target)]
    /\ call' = [name |-> "setTarget", args |-> <<target>>]
    /\ events' = events + 1
    /\ UNCHANGED instance

(* held.velocity = velocity *)
SpringSetVelocity(velocity) ==
    /\ held.kind = "Spring"
    /\ held' = [held EXCEPT !.spring.velocity = velocity]
    /\ call' = [name |-> "velocity", args |-> <<velocity>>]
    /\ events' = events + 1
    /\ UNCHANGED instance

(* held.update(dt), which returns the new value *)
SpringUpdate(dt) ==
    /\ held.kind = "Spring"
    /\ held' = [held EXCEPT !.spring = update(held.spring, dt)]
    /\ call' = [name |-> "update", args |-> <<dt>>, returned |-> held'.spring.value]
    /\ events' = events + 1
    /\ UNCHANGED instance

(* held.isSettled() *)
SpringIsSettled ==
    /\ held.kind = "Spring"
    /\ call' = [name |-> "isSettled", args |-> <<>>, returned |-> isSettled(held.spring)]
    /\ events' = events + 1
    /\ UNCHANGED <<instance, held>>

NextSpring ==
    \/ events < MaxCalls /\ \E value \in SpringValues, config \in SpringConfigs :
                                NewSpring(value, config.stiffness, config.damping)
    \/ events < MaxCalls /\ \E target \in SpringTargets : SpringSetTarget(target)
    \/ events < MaxCalls /\ \E velocity \in SpringVelocities : SpringSetVelocity(velocity)
    \/ events < MaxCalls /\ \E dt \in SpringSteps : SpringUpdate(dt)
    \/ events < MaxCalls /\ SpringIsSettled

SpecSpring == Init /\ [][NextSpring]_vars

----------------------------------------------------------------------------
(* The settle scenario: a spring with stiffness 400 and damping 25 is      *)
(* created at 0.85, given the target 1.0 and stepped with dt = 1/60 s,     *)
(* MaxUpdates times.  `events` counts the calls: the creation, setTarget   *)
(* and the updates.                                                        *)

MaxUpdates == 160

SettleCreate == events = 0 /\ NewSpring((85 * S) \div 100, 400, 25)

SettleTarget == events = 1 /\ SpringSetTarget(S)

SettleUpdate == events \in 2..(MaxUpdates + 1) /\ SpringUpdate(T \div 60)

NextSettle == SettleCreate \/ SettleTarget \/ SettleUpdate

SpecSettle == Init /\ [][NextSettle]_vars /\ WF_vars(NextSettle)

----------------------------------------------------------------------------
(* The script calls the numeric functions directly, once: a profile of    *)
(* the exported SurfaceEquations, the solver of the refraction table, or    *)
(* the rasterizer of the displacement map on small canvases.                *)

(* a small table, in units of 1/B: 0, 0.5, 1.0 and -0.3 *)
SmallTable == <<0, B \div 2, B, 0 - (3 * B) \div 10>>

(* <<canvasWidth, canvasHeight, objectWidth, objectHeight>>: the object    *)
(* fills the canvas or leaves a margin of one pixel or half a pixel a side  *)
RasterSizes == {<<8, 6, 8, 6>>, <<10, 8, 8, 6>>, <<9, 6, 8, 6>>, <<8, 7, 8, 6>>}

RasterRadii == {0, 1, 2, 3}

RasterBezels == {0, 2, 4}

RasterTables == {[maximumDisplacement |-> B, precomputedMap |-> SmallTable],
                 [maximumDisplacement |-> B, precomputedMap |-> <<NaN, NaN>>],
                 [maximumDisplacement |-> B \div 4, precomputedMap |-> SmallTable]}

(* glass._calculateDisplacementMap2D(...) *)
CallDisplacementMap2D(size, radius, bezelWidth, table) ==
    /\ call' = [name     |-> "_calculateDisplacementMap2D",
                args     |-> _calculateDisplacementMap2D(size[1], size[2], size[3], size[4],
                                 radius, bezelWidth, table.maximumDisplacement,
                                 table.precomputedMap),
                returned |-> ImageData(_calculateDisplacementMap2D(size[1], size[2], size[3],
                                 size[4], radius, bezelWidth, table.maximumDisplacement,
                                 table.precomputedMap))]
    /\ events' = events + 1
    /\ UNCHANGED <<instance, held>>

(* the samples argument: left out, or a number *)
SampleRequests ==
    {[given |-> FALSE, samples |-> 0], [given |-> TRUE, samples |-> 0],
     [given |-> TRUE, samples |-> 5], [given |-> TRUE, samples |-> 8]}

(* refractiveIndex in units of 1/C: glass, and a medium thinner than air   *)
(* that reflects steep rays back (k < 0)                                   *)
SolverIndices == {150, 50}

(* glass._calculateDisplacementMap1D(glassThickness, bezelWidth,           *)
(*     SurfaceEquations[surfaceType], refractiveIndex[, samples])          *)
CallDisplacementMap1D(glassThickness, bezelWidth, surfaceType, refractiveIndex, request) ==
    /\ call' = [name     |-> "_calculateDisplacementMap1D",
                args     |-> [glassThickness  |-> glassThickness,
                              bezelWidth      |-> bezelWidth,
                              surfaceType     |-> surfaceType,
                              refractiveIndex |-> refractiveIndex,
                              given           |-> request.given,
                              samples         |-> request.samples],
                returned |-> _calculateDisplacementMap1D(glassThickness, bezelWidth,
                                 SurfaceEquations(surfaceType), refractiveIndex,
                                 request.samples)]
    /\ events' = events + 1
    /\ UNCHANGED <<instance, held>>

(* x in units of 1/H: 0, 1/8, ..., 1 *)
SurfaceArguments == {(i * H) \div 8 : i \in 0..8}

(* SurfaceEquations[surfaceType](x) *)
CallSurfaceEquation(surfaceType, x) ==
    /\ call' = [name     |-> "SurfaceEquations",
                args     |-> [surfaceType |-> surfaceType, x |-> x],
                returned |-> CallSurface(SurfaceEquations(surfaceType), x)]
    /\ events' = events + 1
    /\ UNCHANGED <<instance, held>>

(* <<objectWidth, objectHeight>> *)
SpecularSizes == {<<8, 6>>, <<7, 5>>}

(* the specularAngle argument in degrees: left out (or 0), or 90 *)
SpecularAngles == {0, 90}

(* glass._calculateSpecularHighlight(objectWidth, objectHeight, radius,    *)
(*     bezelWidth[, specularAngle])                                        *)
CallSpecularHighlight(size, radius, bezelWidth, specularAngle) ==
    /\ call' = [name     |-> "_calculateSpecularHighlight",
                args     |-> Merge(_calculateSpecularHighlight(size[1], size[2], radius,
                                                               bezelWidth),
                                   [specularAngle |-> specularAngle]),
                returned |-> SpecularImageData(
                                 Merge(_calculateSpecularHighlight(size[1], size[2], radius,
                                                                   bezelWidth),
                                       [specularAngle |-> specularAngle]))]
    /\ events' = events + 1
    /\ UNCHANGED <<instance, held>>

NextCalls ==
    \/ events = 0 /\ \E surfaceType \in SurfaceNames, x \in SurfaceArguments :
                         CallSurfaceEquation(surfaceType, x)
    \/ events = 0 /\ \E surfaceType \in SurfaceNames, refractiveIndex \in SolverIndices,
                         request \in SampleRequests :
                         CallDisplacementMap1D(150, 30, surfaceType, refractiveIndex, request)
    \/ events = 0 /\ \E size \in RasterSizes, radius \in RasterRadii, bezelWidth \in RasterBezels,
                         table \in RasterTables :
                         CallDisplacementMap2D(size, radius, bezelWidth, table)
    \/ events = 0 /\ \E size \in SpecularSizes, radius \in RasterRadii,
                         bezelWidth \in RasterBezels, specularAngle \in SpecularAngles :
                         CallSpecularHighlight(size, radius, bezelWidth, specularAngle)

SpecCalls == Init /\ [][NextCalls]_vars

----------------------------------------------------------------------------
(* The ES-module build (README.md, from line 100): class Spring (lines     *)
(* 127-154) and _calculateDisplacementMap1D (lines 456-490).  An argument  *)
(* is a record with given = FALSE when it is left out of the call: a       *)
(* default parameter replaces a missing argument only, where the UMD       *)
(* build's `||` also replaces 0.  The script makes every call on both      *)
(* builds.                                                                 *)

(* new Spring(value, stiffness = 300, damping = 20) of the ES build *)
SpringES(value, given, stiffness, damping) ==
    [value     |-> value,
     target    |-> value,
     velocity  |-> 0,
     stiffness |-> IF given THEN stiffness ELSE 300,
     damping   |-> IF given THEN damping ELSE 20]

(* setTarget of the ES build (lines 136-138) *)
setTargetES(s, target) == [s EXCEPT !.target = target]

(* update of the ES build (lines 140-146) *)
updateES(s, dt) ==
    [s EXCEPT !.velocity = s.velocity
                           + MulDiv((s.target - s.value) * s.stiffness
                                    - s.velocity * s.damping, dt, T),
              !.value    = s.value
                           + MulDiv(s.velocity
                                    + MulDiv((s.target - s.value) * s.stiffness
                                             - s.velocity * s.damping, dt, T), dt, T)]

(* isSettled of the ES build (lines 148-153) *)
isSettledES(s) ==
    /\ Abs(s.target - s.value) < S \div 1000
    /\ Abs(s.velocity) < S \div 1000

(* samples = 128 as a default parameter *)
SamplesES(given, samples) == IF given THEN samples ELSE DefaultSamples

(* _calculateDisplacementMap1D of the ES build: its loop body (lines       *)
(* 471-488) is that of the UMD build (lines 312-329); with no iteration    *)
(* surfaceFn is never called                                               *)
DisplacementMap1DES(glassThickness, bezelWidth, surfaceFn, refractiveIndex, given, samples) ==
    IF surfaceFn = "undefined" /\ SamplesES(given, samples) > 0
    THEN [threw |-> TRUE, result |-> <<>>]
    ELSE [threw |-> FALSE,
          result |-> TableRange(glassThickness, bezelWidth, surfaceFn,
                                DivD(C, refractiveIndex, 8), SamplesES(given, samples), 0,
                                SamplesES(given, samples) - 1)]

MaxBuildCalls == 3

(* the stiffness and damping arguments: numbers, zeros, or left out *)
SpringArguments ==
    {[given |-> TRUE, stiffness |-> 400, damping |-> 25],
     [given |-> TRUE, stiffness |-> 0, damping |-> 0],
     [given |-> FALSE, stiffness |-> 0, damping |-> 0]}

(* held = a Spring of each build, made with the same arguments *)
NewSprings(value, arguments) ==
    /\ held = NoObject
    /\ held' = [kind |-> "Springs",
                umd  |-> Spring(value, arguments.stiffness, arguments.damping),
                es   |-> SpringES(value, arguments.given, arguments.stiffness,
                                  arguments.damping)]
    /\ call' = [name |-> "Spring", args |-> <<value, arguments>>,
                returned |-> [umd |-> held'.umd, es |-> held'.es]]
    /\ events' = events + 1
    /\ UNCHANGED instance

(* setTarget(target) on both *)
SpringsSetTarget(target) ==
    /\ held.kind = "Springs"
    /\ held' = [held EXCEPT !.umd = setTarget(held.umd, target),
                            !.es = setTargetES(held.es, target)]
    /\ call' = [name |-> "setTarget", args |-> <<target>>,
                returned |-> [umd |-> "undefined", es |-> "undefined"]]
    /\ events' = events + 1
    /\ UNCHANGED instance

(* update(dt) on both *)
SpringsUpdate(dt) ==
    /\ held.kind = "Springs"
    /\ held' = [held EXCEPT !.umd = update(held.umd, dt), !.es = updateES(held.es, dt)]
    /\ call' = [name |-> "update", args |-> <<dt>>,
                returned |-> [umd |-> held'.umd.value, es |-> held'.es.value]]
    /\ events' = events + 1
    /\ UNCHANGED instance

(* isSettled() on both *)
SpringsIsSettled ==
    /\ held.kind = "Springs"
    /\ call' = [name |-> "isSettled", args |-> <<>>,
                returned |-> [umd |-> isSettled(held.umd), es |-> isSettledES(held.es)]]
    /\ events' = events + 1
    /\ UNCHANGED <<instance, held>>

(* _calculateDisplacementMap1D(150, 30, SurfaceEquations[surfaceType],     *)
(*     1.5[, samples]) on an instance of each build                        *)
BothDisplacementMap1D(surfaceType, request) ==
    /\ call' = [name     |-> "_calculateDisplacementMap1D",
                args     |-> [surfaceType |-> surfaceType, given |-> request.given,
                              samples |-> request.samples],
                returned |-> [umd |-> _calculateDisplacementMap1D(150, 30,
                                          SurfaceEquations(surfaceType), 150,
                                          request.samples),
                              es  |-> DisplacementMap1DES(150, 30,
                                          SurfaceEquations(surfaceType), 150,
                                          request.given, request.samples)]]
    /\ events' = events + 1
    /\ UNCHANGED <<instance, held>>

NextBuilds ==
    \/ events < MaxBuildCalls /\ \E value \in SpringValues, arguments \in SpringArguments :
                                     NewSprings(value, arguments)
    \/ events < MaxBuildCalls /\ \E target \in SpringTargets : SpringsSetTarget(target)
    \/ events < MaxBuildCalls /\ \E dt \in SpringSteps : SpringsUpdate(dt)
    \/ events < MaxBuildCalls /\ SpringsIsSettled
    \/ events = 0 /\ \E surfaceType \in {"convex_squircle", "foo"}, request \in SampleRequests :
                         BothDisplacementMap1D(surfaceType, request)

SpecBuilds == Init /\ [][NextBuilds]_vars

----------------------------------------------------------------------------
(* Vocabulary of the properties                                             *)

(* the driver's two states *)
Animating == animationFrameId # NULL /\ animationFrameId \in frames

Idle == animationFrameId = NULL /\ frames = {}

(* a step that is one run of _animationLoop / of a handler *)
TickStep == events' = events /\ frames' # frames

HandlerStep == events' # events

(* the six targets the mode table sets *)
SixTargets ==
    <<springs.scale.target, springs.shadowOffsetX.target, springs.shadowOffsetY.target,
      springs.shadowBlur.target, springs.shadowAlpha.target, springs.refractionBoost.target>>

DraggingRow == <<S, 4 * S, 16 * S, 24 * S, (22 * S) \div 100, S>>

IdleRow == <<(85 * S) \div 100, 0, 4 * S, 12 * S, (15 * S) \div 100, (8 * S) \div 10>>

(* all eight springs settled and both velocity components below 1 px/s *)
SettledNow ==
    /\ \A n \in SpringNames :
          /\ Abs(springs[n].target - springs[n].value) < S \div 1000
          /\ Abs(springs[n].velocity) < S \div 1000
    /\ Abs(state.velocityX) < VS
    /\ Abs(state.velocityY) < VS

RebuildOptions ==
    {"surfaceType", "bezelWidth", "glassThickness", "refractiveIndex",
     "refractionScale", "specularOpacity"}

TableOptions == {"surfaceType", "bezelWidth", "glassThickness", "refractiveIndex"}

GeometryOptions == {"width", "height", "borderRadius"}

Rasterizers == {"_calculateDisplacementMap2D", "_calculateSpecularHighlight"}

----------------------------------------------------------------------------
(* Properties                                                               *)

(* C1: with springAnimation enabled, a frame is pending right after every  *)
(* _startDrag and right after every _endDrag that ends a drag in           *)
(* progress, whatever the driver's state before.                           *)
C1_AnimatingAfterDrag ==
    [][(/\ HandlerStep
        /\ options.springAnimation
        /\ \/ "_startDrag" \in calls'
           \/ "_endDrag" \in calls' /\ state.isDragging)
       => Animating']_vars

C1_Witness ==
    /\ options.springAnimation
    /\ "_endDrag" \in calls /\ "_startAnimationLoop" \in calls
    /\ Animating

(* C2: at the end of every tick the driver is Idle exactly when the eight  *)
(* springs are settled and both velocity components are below 1, as they   *)
(* stand after the tick; otherwise exactly one further frame is pending.   *)
C2_IdleIffSettled ==
    [][TickStep =>
          /\ Idle' <=> SettledNow'
          /\ ~SettledNow' => (Animating' /\ frames' = {animationFrameId'})]_vars

(* a tick has left settled springs running because the pointer still moves *)
C2_Witness ==
    /\ calls = {"_animationLoop"}
    /\ \A n \in SpringNames : isSettled(springs[n])
    /\ Abs(state.velocityX) >= VS
    /\ Animating

(* C3: in the drag scenario the driver is Animating right after the start  *)
(* and, once released, reaches Idle within MaxTicks ticks.                 *)
C3_DragScenarioSettles ==
    /\ [](events = 1 /\ gap = 0 => Animating)
    /\ [](events = Moves + 2 /\ ~Idle => gap < MaxTicks)
    /\ (events = Moves + 2) ~> (events = Moves + 2 /\ Idle)

(* released at 500 px/s and Idle again, the velocity decayed below 1 *)
C3_Witness ==
    /\ events = Moves + 2
    /\ Idle
    /\ gap > 100
    /\ state.velocityX # 0 /\ Abs(state.velocityX) < VS

(* C4: a setOptions call on an Idle driver that changes a rebuild-         *)
(* triggering option leaves the driver Animating.                          *)
C4_SetOptionsSchedulesFrame ==
    [][(/\ HandlerStep
        /\ "setOptions" \in calls'
        /\ Idle /\ options.springAnimation /\ element # "null"
        /\ \E k \in RebuildOptions : options'[k] # options[k])
       => Animating']_vars

(* C5: the six mode targets are always the Dragging row or the Idle row,   *)
(* and after every tick the row of the drag flag the tick ran with.        *)
C5_ModeTargets ==
    /\ [](SixTargets \in {DraggingRow, IdleRow})
    /\ [][TickStep => SixTargets' = IF state.isDragging THEN DraggingRow ELSE IdleRow]_vars

C5_Witness ==
    /\ calls = {"_animationLoop"}
    /\ state.isDragging
    /\ SixTargets = DraggingRow

(* C6: every tick publishes maximumDisplacement x refractionScale x the    *)
(* refractionBoost value it has just stepped, and runs neither the solver  *)
(* nor a rasterizer: table and buffers stay as they were.                  *)
C6_TickPublishesScale ==
    [][TickStep =>
          /\ filter'.scale =
                 Times(state'.maximumDisplacement,
                       (options'.refractionScale * springs'.refractionBoost.value) \div C, S)
          /\ calls' \cap ({"_calculateDisplacementMap1D"} \cup Rasterizers) = {}
          /\ filter'.displacementHref = filter.displacementHref
          /\ filter'.specularHref = filter.specularHref
          /\ state'.maximumDisplacement = state.maximumDisplacement]_vars

(* a tick during a drag: the boost is on its way from 0.8 to 1.0 *)
C6_Witness ==
    /\ calls = {"_animationLoop"}
    /\ springs.refractionBoost.value > (8 * S) \div 10
    /\ springs.refractionBoost.value < S
    /\ filter.scale > Times(state.maximumDisplacement, (options.refractionScale * 8) \div 10, C)

(* C7: destroying an instance that is already destroyed raises no error    *)
(* and changes nothing.                                                    *)
C7_SecondDestroyIsNoOp ==
    [][(HandlerStep /\ "destroy" \in calls' /\ element = "null")
       => /\ thrown' = "none"
          /\ <<options, state, springs, animationFrameId, frames, filter>>'
                 = <<options, state, springs, animationFrameId, frames, filter>>]_vars

(* C8: the refraction table is computed only by a step that changes        *)
(* surfaceType, bezelWidth, glassThickness or refractiveIndex.             *)
C8_TableOnlyOnInputChange ==
    [][("_calculateDisplacementMap1D" \in calls')
       => \E k \in TableOptions : options'[k] # options[k]]_vars

(* C9: after a resize that changes the element's box, or a setOptions      *)
(* call that changes width, height or borderRadius, both buffers are       *)
(* those of the new geometry.                                              *)
C9_BuffersFollowGeometry ==
    [][(/\ HandlerStep
        /\ element # "null"
        /\ \/ rect' # rect
           \/ \E k \in GeometryOptions : options'[k] # options[k])
       => /\ Rasterizers \subseteq calls'
          /\ filter'.displacementHref.objectWidth = SetupDimensions(options', rect', CssRadius).width
          /\ filter'.displacementHref.objectHeight = SetupDimensions(options', rect', CssRadius).height
          /\ filter'.displacementHref.radius = SetupDimensions(options', rect', CssRadius).borderRadius
          /\ filter'.specularHref.width = SetupDimensions(options', rect', CssRadius).width
          /\ filter'.specularHref.height = SetupDimensions(options', rect', CssRadius).height
          /\ filter'.specularHref.radius = SetupDimensions(options', rect', CssRadius).borderRadius]_vars

(* C10: a setOptions call that leaves surfaceType outside the four         *)
(* profiles raises an error, and neither the solver nor a rasterizer runs. *)
C10_UnknownSurfaceRejected ==
    [][(HandlerStep /\ "setOptions" \in calls' /\ options'.surfaceType \notin SurfaceNames)
       => /\ thrown' # "none"
          /\ calls' \cap ({"_calculateDisplacementMap1D"} \cup Rasterizers) = {}]_vars

(* C11: after setOptions(newOptions), getOptions() returns the new value   *)
(* for every key of newOptions and the previous value for every other      *)
(* key; getOptions() returns the instance's options key by key in a        *)
(* separate object, so that assigning to its top-level keys changes the    *)
(* object but never the instance's options.                                *)
C11_OptionsReadBack ==
    [][/\ \A newOptions \in OptionChanges :
            SetOptions(newOptions) =>
                \A key \in DOMAIN getOptions(options').object :
                    getOptions(options').object[key] =
                        IF key \in DOMAIN newOptions
                        THEN newOptions[key]
                        ELSE getOptions(options).object[key]
       /\ GetOptions =>
            /\ call'.returned.object = options
            /\ options' = options
       /\ \A assignment \in Assignments :
            AssignCopy(assignment) =>
                /\ options' = options
                /\ \A key \in DOMAIN assignment : held'.object[key] = assignment[key]]_vars

(* the script changed an option, read the options back and overwrote a key *)
(* of the object it got: the instance still has its own value              *)
C11_Witness ==
    /\ held.kind = "options"
    /\ call.name = "assign"
    /\ held.object.refractionScale = 200
    /\ options.refractionScale = 200
    /\ held.object.blur = 999
    /\ options.blur # 999

(* C12: Spring.update(dt) computes force = stiffness x (target - value) -  *)
(* damping x velocity, adds force x dt to velocity, then adds the already  *)
(* updated velocity x dt to value, and leaves target, stiffness and        *)
(* damping unchanged; update(0) leaves value and velocity unchanged.       *)
C12_UpdateLaw ==
    [][\A dt \in SpringSteps :
         SpringUpdate(dt) =>
            /\ held'.spring.velocity =
                   held.spring.velocity
                   + MulDiv(held.spring.stiffness * (held.spring.target - held.spring.value)
                            - held.spring.damping * held.spring.velocity, dt, T)
            /\ held'.spring.value = held.spring.value + MulDiv(held'.spring.velocity, dt, T)
            /\ held'.spring.target = held.spring.target
            /\ held'.spring.stiffness = held.spring.stiffness
            /\ held'.spring.damping = held.spring.damping
            /\ dt = 0 => held'.spring = held.spring]_vars

(* a moving spring away from its target was stepped by a non-zero dt: the  *)
(* value moved by the new velocity, which differs from the old one         *)
C12_Witness ==
    /\ call.name = "update"
    /\ call.args[1] > 0
    /\ held.spring.velocity # 0
    /\ held.spring.velocity # S \div 2
    /\ held.spring.target # held.spring.value
    /\ held.spring.value \notin SpringValues

(* C13: Spring.isSettled() returns true if and only if |target - value| <  *)
(* 0.001 and |velocity| < 0.001, both strict: a spring at its target with  *)
(* |velocity| >= 0.001, or at rest at distance >= 0.001 from its target,   *)
(* is not settled.                                                         *)
C13_SettledIffBothBelow ==
    call.name = "isSettled" =>
        /\ call.returned = TRUE <=>
               /\ Abs(held.spring.target - held.spring.value) < S \div 1000
               /\ Abs(held.spring.velocity) < S \div 1000
        /\ /\ held.spring.target = held.spring.value
            /\ Abs(held.spring.velocity) >= S \div 1000
            => call.returned = FALSE
        /\ /\ held.spring.velocity = 0
            /\ Abs(held.spring.target - held.spring.value) >= S \div 1000
            => call.returned = FALSE

(* isSettled() answered false for a spring at its target whose velocity is *)
(* exactly 0.001                                                           *)
C13_Witness ==
    /\ call.name = "isSettled"
    /\ held.spring.target = held.spring.value
    /\ Abs(held.spring.velocity) = S \div 1000
    /\ call.returned = FALSE

(* C14: a spring with stiffness 400 and damping 25 that starts at 0.85     *)
(* with velocity 0, is given the target 1.0 and is stepped with dt = 1/60  *)
(* is settled after some number of update calls that is at most 150.       *)
C14_SettlesWithin150 ==
    <>(/\ call.name = "update"
       /\ events - 2 <= 150
       /\ isSettled(held.spring))

(* the scenario's spring after its 150th update: still at rest at 1.0 *)
C14_Witness ==
    /\ call.name = "update"
    /\ events - 2 = 150
    /\ held.spring.stiffness = 400
    /\ held.spring.damping = 25
    /\ held.spring.target = S
    /\ isSettled(held.spring)

(* pixel (px, py) of a returned image, as <<R, G, B, A>> *)
PixelOf(image, px, py) ==
    <<image.data[(py * image.width + px) * 4],
      image.data[(py * image.width + px) * 4 + 1],
      image.data[(py * image.width + px) * 4 + 2],
      image.data[(py * image.width + px) * 4 + 3]>>

(* twice the pixel's coordinate in the object's frame is 2 * px minus the  *)
(* margin; the pixel lies in the object region when that falls on one of    *)
(* the object's pixels                                                      *)
OutsideObject(img, px, py) ==
    \/ 2 * px - (img.width - img.objectWidth) < 0
    \/ 2 * px - (img.width - img.objectWidth) > 2 * (img.objectWidth - 1)
    \/ 2 * py - (img.height - img.objectHeight) < 0
    \/ 2 * py - (img.height - img.objectHeight) > 2 * (img.objectHeight - 1)

(* the pixel is one of the object's pixels and its corner-folded squared   *)
(* distance lies outside [(radius - bezelWidth)^2, (radius + 1)^2]          *)
OutsideRing(img, px, py) ==
    /\ ~OutsideObject(img, px, py)
    /\ (img.width - img.objectWidth) % 2 = 0
    /\ (img.height - img.objectHeight) % 2 = 0
    /\ \/ DistanceToCenterSquared(img, px - (img.width - img.objectWidth) \div 2,
                                   py - (img.height - img.objectHeight) \div 2)
             < (img.radius - img.bezelWidth) * (img.radius - img.bezelWidth)
       \/ DistanceToCenterSquared(img, px - (img.width - img.objectWidth) \div 2,
                                   py - (img.height - img.objectHeight) \div 2)
             > (img.radius + 1) * (img.radius + 1)

(* C15: the displacement buffer has exactly canvasWidth x canvasHeight     *)
(* pixels; every pixel outside the object region, or whose corner-folded   *)
(* squared distance lies outside [(radius - bezelWidth)^2, (radius + 1)^2], *)
(* is the sentinel (128, 128, 0, 255); every pixel has B = 0, A = 255 and   *)
(* R, G within 0..255.                                                      *)
C15_DisplacementBuffer ==
    call.name = "_calculateDisplacementMap2D" =>
        /\ DOMAIN call.returned.data = 0..(call.args.width * call.args.height * 4 - 1)
        /\ \A px \in 0..(call.args.width - 1), py \in 0..(call.args.height - 1) :
              /\ OutsideObject(call.args, px, py) \/ OutsideRing(call.args, px, py)
                    => PixelOf(call.returned, px, py) = DisplacementSentinel
              /\ PixelOf(call.returned, px, py)[3] = 0
              /\ PixelOf(call.returned, px, py)[4] = 255
              /\ PixelOf(call.returned, px, py)[1] \in 0..255
              /\ PixelOf(call.returned, px, py)[2] \in 0..255

(* the last handler rebuilt the filter images *)
Rebuilt == "_calculateDisplacementMap2D" \in calls /\ thrown = "none"

(* m is the maximum of |table[i]| as Math.max computes it: NaN when an     *)
(* entry is NaN                                                             *)
IsMaxAbs(m, table) ==
    IF \E i \in DOMAIN table : table[i] = NaN
    THEN m = NaN
    ELSE /\ \A i \in DOMAIN table : Abs(table[i]) <= m
         /\ \E i \in DOMAIN table : Abs(table[i]) = m

(* C16 as stated: after every rebuild the instance's maximumDisplacement   *)
(* is the maximum of |table[i]|, or 1 when that maximum is 0.              *)
C16_StoredMaximumOrOne ==
    Rebuilt =>
        IF IsMaxAbs(0, filter.displacementHref.precomputedMap)
        THEN state.maximumDisplacement = B
        ELSE IsMaxAbs(state.maximumDisplacement, filter.displacementHref.precomputedMap)

(* C16, amended: after every rebuild the instance's maximumDisplacement is *)
(* the maximum of |table[i]| itself, 0 included; the divisor handed to the *)
(* displacement rasterizer is that maximum, or 1 when the maximum is 0 or  *)
(* NaN, so the divisor is never 0.                                         *)
C16_DivisorOrOne ==
    Rebuilt =>
        /\ IsMaxAbs(state.maximumDisplacement, filter.displacementHref.precomputedMap)
        /\ filter.displacementHref.maximumDisplacement =
               IF state.maximumDisplacement \in {0, NaN} THEN B ELSE state.maximumDisplacement
        /\ filter.displacementHref.maximumDisplacement > 0

(* a rebuild from an all-zero table: the instance keeps 0, the rasterizer  *)
(* got 1                                                                   *)
C16_Witness ==
    /\ Rebuilt
    /\ "setOptions" \in calls
    /\ \A i \in DOMAIN filter.displacementHref.precomputedMap :
          filter.displacementHref.precomputedMap[i] = 0
    /\ state.maximumDisplacement = 0
    /\ filter.displacementHref.maximumDisplacement = B

(* the solver's sample i of a call: x, the finite-difference slope there,  *)
(* and k = 1 - eta^2 (1 - dot^2) for dot = -1 / sqrt(slope^2 + 1)           *)
SampleX(samples, i) == DivD(i, samples, 8)

SampleSlope(surfaceType, x) ==
    DivD(CallSurface(surfaceType, Max(0, Min(H, x + Dx(x)))) - CallSurface(surfaceType, x),
         Dx(x), 4)

SampleK(eta, slope) ==
    H - MulH(MulH(eta, eta),
             H - MulH(DivD(B, Magnitude(slope), 8), DivD(B, Magnitude(slope), 8)))

(* refractedX * (y * bezelWidth + glassThickness) / refractedY *)
Projected(a, y, refracted) ==
    MulH(refracted[2],
         DivD(MulH(y, a.bezelWidth * B) + a.glassThickness * B, refracted[3] \div B, 4))

(* entry i of the table is 0 under total internal reflection and the       *)
(* projected refraction otherwise                                          *)
EntryAsSolved(a, table, samples, i) ==
    IF SampleK(DivD(C, a.refractiveIndex, 8),
               SampleSlope(a.surfaceType, SampleX(samples, i))) < 0
    THEN table[i + 1] = 0
    ELSE table[i + 1] =
            Projected(a, CallSurface(a.surfaceType, SampleX(samples, i)),
                      Refracted(DivD(C, a.refractiveIndex, 8),
                                SampleSlope(a.surfaceType, SampleX(samples, i)),
                                Magnitude(SampleSlope(a.surfaceType, SampleX(samples, i)))))

LipCalled == call.name = "SurfaceEquations" /\ call.args.surfaceType = "lip"

(* C18 as stated: lip(0) is the concave profile's value at 0 and lip(1)    *)
(* is the convex_squircle profile's value at 1.                            *)
C18_LipEndsConcaveThenConvex ==
    LipCalled =>
        /\ call.args.x = 0 => call.returned = concave(0)
        /\ call.args.x = H => call.returned = convex_squircle(H)

(* C18, amended: lip(0) is 0, the value at 0 of its convex branch and of   *)
(* the concave and convex_squircle profiles alike; lip(1) is 0.1, the      *)
(* value at 1 of its concave branch 1 - sqrt(1 - (1 - x)^2) + 0.1, and not *)
(* the convex_squircle profile's 1: the smootherstep weight, 0 at x = 0    *)
(* and 1 at x = 1, is the weight of the concave branch.                    *)
C18_LipEndsConvexThenConcave ==
    LipCalled =>
        /\ call.args.x = 0 =>
              /\ call.returned = 0
              /\ call.returned = concave(0)
              /\ call.returned = convex_squircle(0)
        /\ call.args.x = H =>
              /\ call.returned = H \div 10
              /\ call.returned = H - SqrtH(H - MulH(H - H, H - H)) + H \div 10
              /\ call.returned # convex_squircle(H)

(* lip was evaluated at x = 1 and returned 0.1 *)
C18_Witness ==
    /\ LipCalled
    /\ call.args.x = H
    /\ call.returned = H \div 10
    /\ convex_squircle(H) = H

(* m = hypot(velocityX, velocityY) of the state a tick starts from, in     *)
(* units of 1/VS px/s, and squish = min(0.15, m / 3000) in units of 1/S    *)
Hypot == ISqrt(state.velocityX * state.velocityX + state.velocityY * state.velocityY)

SquishOf(m) == Min((15 * S) \div 100, (m * (S \div 1000)) \div (3 * VS))

(* 1 + squish x |a / m| - 0.5 x squish x |b / m| *)
SquishedTarget(m, a, b) ==
    S + (SquishOf(m) * ((Abs(a) * B) \div m)) \div B
      - ((SquishOf(m) \div 2) * ((Abs(b) * B) \div m)) \div B

(* C19: in every tick, with m = hypot(velocityX, velocityY) before the     *)
(* tick's decay and squish = min(0.15, m / 3000): if m > 50 the scaleX     *)
(* target is 1 + squish |vx / m| - 0.5 squish |vy / m| and the scaleY      *)
(* target the symmetric expression; if m <= 50, 50 itself included, both   *)
(* targets are 1; both targets lie in [0.925, 1.15].                       *)
C19_SquishTargets ==
    [][TickStep =>
        /\ Hypot > 50 * VS =>
              /\ springs'.scaleX.target = SquishedTarget(Hypot, state.velocityX, state.velocityY)
              /\ springs'.scaleY.target = SquishedTarget(Hypot, state.velocityY, state.velocityX)
        /\ Hypot <= 50 * VS =>
              /\ springs'.scaleX.target = S
              /\ springs'.scaleY.target = S
        /\ springs'.scaleX.target >= (925 * S) \div 1000
        /\ springs'.scaleX.target <= (115 * S) \div 100
        /\ springs'.scaleY.target >= (925 * S) \div 1000
        /\ springs'.scaleY.target <= (115 * S) \div 100]_vars

(* a tick during a horizontal drag at 500 px/s: squish is capped at 0.15,  *)
(* the scaleX target is 1.15 and the scaleY target 0.925                   *)
C19_Witness ==
    /\ calls = {"_animationLoop"}
    /\ state.isDragging
    /\ Abs(state.velocityX) = 500 * VS
    /\ state.velocityY = 0
    /\ springs.scaleX.target = (115 * S) \div 100
    /\ springs.scaleY.target = (925 * S) \div 1000

PointerOrOptionHandlers ==
    {"_startDrag", "_handleMouseMove", "_drag", "_endDrag", "_handleResize", "setOptions"}

(* C21: startDrag, drag, endDrag, resize and setOptions leave the value,   *)
(* target and velocity of the eight springs unchanged; a tick sets the     *)
(* target of every spring and then steps each of the eight once, all with  *)
(* dt = 1/60 s (the frame delta capped at 1/60, whatever time elapsed).    *)
C21_OnlyTicksMoveSprings ==
    [][/\ (HandlerStep /\ calls' \cap PointerOrOptionHandlers # {}) => springs' = springs
       /\ TickStep =>
            /\ DOMAIN springs' = SpringNames
            /\ \A n \in SpringNames :
                  /\ springs'[n].velocity =
                        springs[n].velocity
                        + MulDiv(springs[n].stiffness * (springs'[n].target - springs[n].value)
                                 - springs[n].damping * springs[n].velocity, T \div 60, T)
                  /\ springs'[n].value =
                        springs[n].value + MulDiv(springs'[n].velocity, T \div 60, T)
                  /\ springs'[n].stiffness = springs[n].stiffness
                  /\ springs'[n].damping = springs[n].damping]_vars

(* a tick during a drag has moved the scale spring towards 1.0 *)
C21_Witness ==
    /\ calls = {"_animationLoop"}
    /\ state.isDragging
    /\ springs.scale.target = S
    /\ springs.scale.velocity > 0
    /\ springs.scale.value > (85 * S) \div 100

(* C26: at most one animation frame is pending at every moment: a handler  *)
(* running while a frame is pending schedules no second one, and a tick    *)
(* consumes its frame and schedules at most one successor, a new frame.    *)
C26_OneFramePending ==
    [][/\ Cardinality(frames) <= 1
       /\ Cardinality(frames') <= 1
       /\ (HandlerStep /\ frames # {}) => frames' \subseteq frames
       /\ TickStep => frames' \cap frames = {}]_vars

(* a drag has started as the first event while the frame scheduled at      *)
(* construction was still pending (no tick has published a scale yet), and *)
(* that frame is still the only one                                        *)
C26_Witness ==
    /\ "_startAnimationLoop" \in calls
    /\ events = 1
    /\ state.isDragging
    /\ filter.scale # PublishedScale(state.maximumDisplacement, options.refractionScale,
                                     springs.refractionBoost.value)
    /\ animationFrameId = 1
    /\ frames = {1}

(* C25: with springAnimation enabled and the element live, whenever no     *)
(* frame is pending all eight springs are settled and |velocityX| < 1 and  *)
(* |velocityY| < 1.                                                        *)
C25_IdleMeansAtRest ==
    (options.springAnimation /\ element # "null" /\ Idle) =>
        /\ \A n \in SpringNames : isSettled(springs[n])
        /\ Abs(state.velocityX) < VS
        /\ Abs(state.velocityY) < VS

(* C28: with springAnimation enabled (the first tick has then run before   *)
(* the loop can be idle), whenever no frame is pending the published scale *)
(* is maximumDisplacement * refractionScale * refractionBoost.value.       *)
C28_IdleScaleIsBoosted ==
    (options.springAnimation /\ element # "null" /\ Idle) =>
        filter.scale = PublishedScale(state.maximumDisplacement, options.refractionScale,
                                      springs.refractionBoost.value)

(* C27: once destroy() has been called (the element reference is cleared), *)
(* no frame is pending for the instance and no tick of it runs, also when  *)
(* destroy() was called from inside a drag callback.                       *)
C27_NothingRunsAfterDestroy ==
    element = "null" => (frames = {} /\ "_animationLoop" \notin calls)

DragCallbacks == {"onDragStart", "onDrag", "onDragEnd"}

(* C29: with the three callbacks configured, onDragEnd is called only by   *)
(* an end event that finds isDragging true and leaves it false, and        *)
(* isDragging becomes true only in a step that calls onDragStart; onDrag   *)
(* is called only while isDragging is true; an end event that finds        *)
(* isDragging false changes no state, calls no callback and schedules no   *)
(* frame.                                                                  *)
C29_CallbackOrder ==
    [][/\ "onDragEnd" \in calls' => (state.isDragging /\ ~state'.isDragging)
       /\ (~state.isDragging /\ state'.isDragging) => "onDragStart" \in calls'
       /\ "onDrag" \in calls' => (state.isDragging /\ state'.isDragging)
       /\ ("_endDrag" \in calls' /\ ~state.isDragging) =>
            /\ calls' \cap DragCallbacks = {}
            /\ "_startAnimationLoop" \notin calls'
            /\ UNCHANGED <<options, dimensions, rect, state, springs, animationFrameId,
                           frames, element, listening, filter>>]_vars

(* a second end event after a completed drag, the loop having stopped *)
C29_Witness ==
    /\ calls = {"_endDrag"}
    /\ events = 3
    /\ state.lastX = 10
    /\ ~state.isDragging
    /\ Idle
    /\ options.onDragEnd = "log"

(* the index read at line 376 for the object's pixel (x1, y1) *)
IndexRead(img, x1, y1) ==
    ReadIndex(BezelIndex(img.radius * B
                         - DistanceFromCenter(DistanceToCenterSquared(img, x1, y1)),
                         img.bezelWidth, Len(img.precomputedMap)),
              Len(img.precomputedMap))

(* C22: for every bezel pixel of a displacement rasterization the index    *)
(* read from a non-empty table is within 0..length-1.                      *)
C22_IndexWithinTable ==
    (call.name = "_calculateDisplacementMap2D" /\ Len(call.args.precomputedMap) > 0) =>
        \A x1 \in 0..(call.args.objectWidth - 1), y1 \in 0..(call.args.objectHeight - 1) :
            isInBezel(DistanceToCenterSquared(call.args, x1, y1), call.args.radius,
                      call.args.bezelWidth)
            => IndexRead(call.args, x1, y1) \in 0..(Len(call.args.precomputedMap) - 1)

(* byte c of the four bytes at idx (line 354) of the object's pixel        *)
(* (x1, y1), where the buffer has such a byte                              *)
ByteAtIdx(image, img, x1, y1, c) ==
    IF FirstIdx(img) + 4 * (y1 * img.width + x1) + c \in DOMAIN image.data
    THEN image.data[FirstIdx(img) + 4 * (y1 * img.width + x1) + c]
    ELSE DisplacementSentinel[((FirstIdx(img) + c) % 4) + 1]

(* C30: when bezelWidth > 2 * radius + 1 every byte of the displacement    *)
(* buffer is the sentinel's, whatever the table; when bezelWidth > radius, *)
(* the four bytes of every object pixel whose corner-folded squared        *)
(* distance is below (bezelWidth - radius)^2 keep the sentinel.            *)
C30_WideBezelLeavesNeutral ==
    call.name = "_calculateDisplacementMap2D" =>
        /\ call.args.bezelWidth > 2 * call.args.radius + 1 =>
              \A b \in DOMAIN call.returned.data :
                  call.returned.data[b] = DisplacementSentinel[(b % 4) + 1]
        /\ call.args.bezelWidth > call.args.radius =>
              \A x1 \in 0..(call.args.objectWidth - 1),
                 y1 \in 0..(call.args.objectHeight - 1), c \in 0..3 :
                  DistanceToCenterSquared(call.args, x1, y1)
                      < (call.args.bezelWidth - call.args.radius)
                        * (call.args.bezelWidth - call.args.radius)
                  => ByteAtIdx(call.returned, call.args, x1, y1, c)
                       = DisplacementSentinel[((FirstIdx(call.args) + c) % 4) + 1]

(* radius 3 and bezelWidth 4 with a table that displaces: the pixels at a  *)
(* corner's centre (distance 0 < 4 - 3) are neutral, the ring around them  *)
(* is not                                                                  *)
C30_Witness ==
    /\ call.name = "_calculateDisplacementMap2D"
    /\ call.args.radius = 3
    /\ call.args.bezelWidth = 4
    /\ call.args.width = call.args.objectWidth
    /\ call.args.height = call.args.objectHeight
    /\ PixelOf(call.returned, 3, 3) = DisplacementSentinel
    /\ PixelOf(call.returned, 2, 3) # DisplacementSentinel

(* C23: the specular buffer has objectWidth x objectHeight pixels; a call  *)
(* that differs only in bezelWidth returns the same buffer; only pixels    *)
(* whose corner-folded squared distance lies in [(radius - 1.5)^2,         *)
(* (radius + 1)^2] are written (the others keep the zeros of a new         *)
(* buffer); every pixel has R = G = B.                                     *)
C23_SpecularBuffer ==
    call.name = "_calculateSpecularHighlight" =>
        /\ call.returned.width = call.args.width
        /\ call.returned.height = call.args.height
        /\ DOMAIN call.returned.data = 0..(call.args.width * call.args.height * 4 - 1)
        /\ \A bezelWidth \in RasterBezels :
              SpecularImageData([call.args EXCEPT !.bezelWidth = bezelWidth]) = call.returned
        /\ \A px \in 0..(call.args.width - 1), py \in 0..(call.args.height - 1) :
              /\ PixelOf(call.returned, px, py)[1] = PixelOf(call.returned, px, py)[2]
              /\ PixelOf(call.returned, px, py)[2] = PixelOf(call.returned, px, py)[3]
              /\ PixelOf(call.returned, px, py) # <<0, 0, 0, 0>> =>
                    /\ 4 * SpecularDistanceSquared(call.args, px, py)
                         >= (2 * call.args.radius - 3) * (2 * call.args.radius - 3)
                    /\ SpecularDistanceSquared(call.args, px, py)
                         <= (call.args.radius + 1) * (call.args.radius + 1)

(* a highlight of radius 3 asked for with bezelWidth 4: lit on the ring,   *)
(* untouched at a corner's centre                                          *)
C23_Witness ==
    /\ call.name = "_calculateSpecularHighlight"
    /\ call.args.radius = 3
    /\ call.args.bezelWidth = 4
    /\ call.args.width = 8
    /\ PixelOf(call.returned, 1, 1)[1] > 0
    /\ PixelOf(call.returned, 1, 1)[4] > 0
    /\ PixelOf(call.returned, 3, 3) = <<0, 0, 0, 0>>

(* C24: after every sequence of Spring operations made on both builds with *)
(* the same arguments (stiffness and damping numbers, zeros or left out)   *)
(* the two springs are in the same state and every call has returned the   *)
(* same result, and so has every call of the refraction solver (the sample *)
(* count a number, zero or left out).                                      *)
C24_BuildsAgree ==
    /\ held.kind = "Springs" => held.umd = held.es
    /\ call.name # "none" => call.returned.umd = call.returned.es

====
